---- MODULE Spec2Model ----
(***************************************************************************)
(* Model of the combinatorial dropdown test engine (CompactDropdownTester, *)
(* latest revision in src/unnamed/part_000 lines 2268..5136, with the      *)
(* earlier revisions dropdown-validator5.js and dropdown-validator3.js     *)
(* where they differ).                                                     *)
(*                                                                         *)
(* The browser and the page are the environment: the page's <select>       *)
(* controls, its tiles and its messages are state the program reads and    *)
(* writes through driver calls, and any driver call may raise.  The number *)
(* of environment faults in one run is bounded by MaxFaults.               *)
(***************************************************************************)
EXTENDS Integers, Sequences, FiniteSets, TLC

\* ------------------------------------------------------------------------
\* Bounds of the model
\* ------------------------------------------------------------------------
MaxFaults == 1          \* environment faults injected in one run
MaxRetryArg == 6        \* largest maxRetries argument tried in SpecRetry
MaxCalls == 2           \* calls of executeWithRetry made one after the other in SpecRetry
MaxUrls == 2            \* URLs loaded from the CSV file in SpecRun
MaxTicks == 6           \* monitor ticks in SpecMonitor
MaxRecoveries == 3      \* stuck recoveries started in SpecMonitor
MaxTitles == 3          \* <bolt-tile> elements on the page in SpecSort
MaxFound == 4           \* elements one selector matches in SpecDiscover
MaxCaptures == 52       \* captureValidation calls in SpecBuffer
MaxWriteFailures == 2   \* appendFileSync calls that raise in SpecBuffer
MaxCombos == 2          \* combinations one URL yields in SpecRun

\* ------------------------------------------------------------------------
\* Program constants
\* ------------------------------------------------------------------------
MaxDropdowns == 3                   \* els.slice(0, 3)
MaxRetriesSelection == 2            \* maxRetries.selection
MaxRetriesDropdownOptions == 2      \* maxRetries.dropdownOptions
MaxRetriesTileValidation == 2       \* maxRetries.tileValidation
MaxRetriesSortByValidation == 2     \* maxRetries.sortByValidation
MaxRetriesOverall == 3              \* maxRetries.overall
MinTilesForSort == 2                \* tileData.visible < 2
CleanupRetries == 2                 \* executeWithRetry('cleanup', ..., 2)
MaxRetriesStuckRecovery == 2        \* maxRetries.stuckRecovery
MaxRetriesDropdownFinding == 2      \* maxRetries.dropdownFinding
BackoffBase == 1000                 \* 1000 * Math.pow(2, attempt - 1)
BackoffCap == 10000                 \* Math.min(..., 10000)
JitterRange == 1000                 \* Math.random() * 1000
ActivityTimeout == 45               \* activityTimeout = 45000 ms
TickPeriod == 10                    \* setInterval(checkForStuckState, 10000)
FlushThreshold == 50                \* this.validationBuffer.length >= 50

CanonicalMsg == "There are no items that match your choices."
\* a page text that contains the canonical sentence among other words
LongCanonicalMsg == "Sorry. There are no items that match your choices. Reset filters"
OtherMsg == "No results found"

\* text.includes("There are no items that match your choices.")
IncludesCanonical(text) == text \in {CanonicalMsg, LongCanonicalMsg}

\* the retry counters are kept per operation name
OpNames == {"navigation", "dropdownFinding", "dropdownOptions", "selection",
            "verification", "stuckRecovery", "tileValidation",
            "sortByValidation", "testAllCombinations", "initializeDriver"}

\* operation names whose counter the constructor initialises to 0
CtorCounted == {"navigation", "dropdownFinding", "dropdownOptions", "selection",
                "verification", "stuckRecovery", "tileValidation",
                "sortByValidation"}

\* retryCounts[op] of a name the constructor does not list is undefined
Undefined == -1

InitRetryCounts == [op \in OpNames |-> IF op \in CtorCounted THEN 0 ELSE Undefined]

\* (this.retryCounts[opName] || 0)
OrZero(x) == IF x = Undefined THEN 0 ELSE x

\* ------------------------------------------------------------------------
\* Small helpers on sequences
\* ------------------------------------------------------------------------
Range(s) == {s[k] : k \in 1..Len(s)}

RECURSIVE SeqProduct(_)
SeqProduct(s) == IF s = <<>> THEN 1 ELSE Len(Head(s)) * SeqProduct(Tail(s))

\* combos.filter(c => P(c)).length
CountIf(s, P(_)) == Cardinality({k \in 1..Len(s) : P(s[k])})

\* ------------------------------------------------------------------------
\* The page: <select> controls as the DOM holds them
\* ------------------------------------------------------------------------
DomOpt(v, t, dis) == [value |-> v, text |-> t, disabled |-> dis]

SelTopic   == << DomOpt("", "All", FALSE), DomOpt("a", "Articles", FALSE) >>
SelFormat  == << DomOpt("x", "Guides", FALSE), DomOpt("", "Any", FALSE),
                 DomOpt("y", "Videos", FALSE) >>
SelAud     == << DomOpt("p", "Clients", FALSE), DomOpt("q", "Quick Tips", FALSE) >>
SelDis     == << DomOpt("", "Choose", TRUE), DomOpt("m", "Guides", FALSE),
                 DomOpt("n", "Articles", FALSE) >>
SelOne     == << DomOpt("k", "Articles", FALSE) >>

\* the pages under test: one sequence of <select> controls each
PageConfigs == { << SelTopic, SelFormat >>,
                 << SelAud, SelTopic, SelAud >>,
                 << SelDis, SelFormat >>,
                 << SelFormat >>,
                 << SelOne, SelTopic >> }

\* the page of the sample scenario: 2 dropdowns with 2 and 3 options
ScenarioConfig == << SelTopic, SelFormat >>

\* Array.from(select.options).filter(opt => !opt.disabled && ...)
\*      .map((opt, i) => ({ value, text, index: i }))
RECURSIVE ExtractFrom(_, _)
ExtractFrom(dom, i) ==
  IF dom = <<>> THEN <<>>
  ELSE IF Head(dom).disabled THEN ExtractFrom(Tail(dom), i)
  ELSE << [value |-> Head(dom).value, text |-> Head(dom).text, index |-> i] >>
       \o ExtractFrom(Tail(dom), i + 1)

ExtractOptions(dom) == ExtractFrom(dom, 0)

\* options.find(opt => opt.value === '') || options[0]
DefaultOptFirst(opts) == opts[1]

DefaultOpt(opts) ==
  IF \E k \in 1..Len(opts) : opts[k].value = ""
  THEN opts[CHOOSE k \in 1..Len(opts) :
              /\ opts[k].value = ""
              /\ \A j \in 1..(k-1) : opts[j].value # ""]
  ELSE opts[1]

\* value a <select> shows when the page has loaded: its first option
LoadedValue(dom) == dom[1].value

\* ------------------------------------------------------------------------
\* The page: what the in-page probes see once a combination is applied
\*   bolt     number of <bolt-tile> elements in the document
\*   other    tile-like elements the fallback strategies find (used only
\*            when there is no <bolt-tile>)
\*   hidden   <bolt-tile> elements with display none, visibility hidden or
\*            opacity 0
\*   visible  found tiles that pass the visibility and content filter
\*   msg      text of the first element matching a known no-results phrase
\*            ("" when none matches)
\*   canon    text of the first element that contains the canonical
\*            sentence ("" when the document does not contain it)
\*   canonShown   that element is displayed
\*   sortCtl  a sort control is on the page
\*   titles   titles of the <bolt-tile> elements in page order, each a
\*            sequence of characters
\* ------------------------------------------------------------------------
Obs(b, o, h, v, m, c, cs, sc, t) ==
  [bolt |-> b, other |-> o, hidden |-> h, visible |-> v, msg |-> m,
   canon |-> c, canonShown |-> cs, sortCtl |-> sc, titles |-> t]

ObsTiles3   == Obs(3, 0, 0, 3, "", "", FALSE, TRUE, << <<"a">>, <<"b">>, <<"c">> >>)
ObsTiles2   == Obs(2, 0, 0, 2, "", "", FALSE, FALSE, << <<"b">>, <<"a">> >>)
ObsOneTile  == Obs(1, 0, 0, 1, "", "", FALSE, TRUE, << <<"a">> >>)
ObsCanon    == Obs(0, 0, 0, 0, CanonicalMsg, CanonicalMsg, TRUE, TRUE, <<>>)
ObsEmpty    == Obs(0, 0, 0, 0, "", "", FALSE, TRUE, <<>>)
ObsOther    == Obs(0, 0, 0, 0, OtherMsg, "", FALSE, FALSE, <<>>)
\* tiles are in the document but hidden, and a non-canonical message shows
ObsHiddenOther == Obs(2, 0, 2, 0, OtherMsg, "", FALSE, TRUE, << <<"a">>, <<"b">> >>)
\* tiles hidden, canonical sentence inside a longer notification
ObsHiddenCanon == Obs(2, 0, 2, 0, LongCanonicalMsg, LongCanonicalMsg, TRUE, TRUE, << <<"a">>, <<"b">> >>)
\* tiles visible while the (hidden) notification element stays in the document
ObsTilesAndMsg == Obs(2, 0, 0, 2, CanonicalMsg, CanonicalMsg, FALSE, TRUE, << <<"c">>, <<"a">> >>)
\* tiles found by a fallback strategy, no <bolt-tile>
ObsFallback == Obs(0, 2, 0, 2, "", "", FALSE, TRUE, <<>>)
\* one visible tile next to a no-results message
ObsOneAndMsg == Obs(2, 0, 1, 1, OtherMsg, "", FALSE, TRUE, << <<"b">>, <<"b">> >>)

ObsList == << ObsTiles3, ObsCanon, ObsTiles2, ObsOneTile, ObsEmpty, ObsOther,
              ObsHiddenOther, ObsHiddenCanon, ObsTilesAndMsg, ObsFallback,
              ObsOneAndMsg >>

Profiles == 0..4

\* position of a selection in depth-first order (0-based), from the options'
\* ordinal indices and the sizes of the option lists
RECURSIVE LeafRank(_, _)
LeafRank(sel, sizes) ==
  IF sel = <<>> THEN 0
  ELSE Head(sel).index * SeqProduct(Tail(sizes)) + LeafRank(Tail(sel), Tail(sizes))

\* what the page shows for a selection: the page's content is a function of
\* the applied filter values, fixed per page profile
PageObs(prof, sel, sizes) ==
  IF prof = 0
  THEN (IF sel[Len(sel)].index = Len(sizes[Len(sizes)]) - 1
          THEN ObsCanon
          ELSE IF LeafRank(sel, sizes) % 2 = 0 THEN ObsTiles3 ELSE ObsOneTile)
  ELSE ObsList[((prof * 3 + LeafRank(sel, sizes) * 2) % Len(ObsList)) + 1]

\* ------------------------------------------------------------------------
\* executeWithRetry, as seen by a caller (revision 5 and later): the
\* operation fails `fails` times in a row and would succeed afterwards.
\* The recovery of every operation name but navigation and dropdownFinding
\* is a plain delay.  Returns whether a value was returned and the counters.
\* ------------------------------------------------------------------------
RetryOutcome(counts, op, fails, maxRetries) ==
  IF fails < maxRetries
  THEN [ok |-> TRUE,  counts |-> [counts EXCEPT ![op] = 0]]
  ELSE [ok |-> FALSE, counts |-> [counts EXCEPT ![op] = OrZero(@) + maxRetries]]

\* ------------------------------------------------------------------------
\* Errors carried by results: error.message, kept structured
\* ------------------------------------------------------------------------
Err(k, o, d) == [kind |-> k, op |-> o, dropdown |-> d]
NoError == Err("none", "", 0)
\* `Verification failed for dropdown ${i + 1}. Expected: ...`
VerificationError(i) == Err("verificationFailed", "", i)
\* an error raised by the driver itself (stale element, dead session, ...)
DriverError == Err("driver", "", 0)
\* `${opName} failed after ${maxRetries} attempts`
ExhaustedError(op) == Err("exhausted", op, 0)
ExpectedNoResultsNote == Err("expectedNoResults", "", 0)
UnexpectedMessageNote == Err("messageNotExpected", "", 0)
ExpectedNoTilesNote == Err("expectedNoVisibleTiles", "", 0)
SelectFailedError(i) == Err("failedToSelect", "", i)

\* ------------------------------------------------------------------------
\* Tile detection
\* ------------------------------------------------------------------------
\* detectTilesOnNationwidePage: a script error is caught and an empty
\* observation is returned in its place
DetectTiles(obs, scriptError) ==
  IF scriptError
  THEN [total |-> 0, visible |-> 0, hasNoResultsMessage |-> FALSE,
        noResultsText |-> "", strategies |-> "Error"]
  ELSE [total |-> IF obs.bolt > 0 THEN obs.bolt ELSE obs.other,
        visible |-> obs.visible,
        hasNoResultsMessage |-> obs.msg # "",
        noResultsText |-> obs.msg,
        strategies |-> IF obs.bolt > 0 THEN "bolt-tile direct"
                       ELSE IF obs.other > 0 THEN "fallback"
                       ELSE "no strategies worked"]

\* tile status computed by validateTileCount
TileStatusOf(td) ==
  IF td.visible > 0 THEN "VALIDATED"
  ELSE IF td.hasNoResultsMessage THEN "NO_TILES_WITH_MESSAGE"
  ELSE "NO_VISIBLE_TILES"

\* one attempt of validateTileCount that raises nothing
ValidateTileCount(obs, scriptError) ==
  LET td == DetectTiles(obs, scriptError)
      recheck == td.hasNoResultsMessage /\ td.total > 0 /\ td.visible = 0
      td2 == IF recheck /\ obs.hidden > 0
             THEN [td EXCEPT !.total = obs.bolt,
                             !.visible = 0,
                             !.hasNoResultsMessage = (obs.canon # ""),
                             !.noResultsText =
                                IF obs.canon # "" THEN obs.canon ELSE td.noResultsText]
             ELSE td
  IN  [total |-> td2.total, visible |-> td2.visible,
       hasNoResultsMessage |-> td2.hasNoResultsMessage,
       noResultsText |-> td2.noResultsText,
       status |-> TileStatusOf(td2),
       strategies |-> td2.strategies]

\* ------------------------------------------------------------------------
\* Sort validation
\* ------------------------------------------------------------------------
\* Titles are sequences of characters.  Rank of a character in the
\* collation localeCompare uses: symbols sort before letters.
CharRank(c) == CASE c = "|" -> 0 [] c = "a" -> 1 [] c = "b" -> 2 [] OTHER -> 3

\* a.localeCompare(b): negative, zero or positive
RECURSIVE LocaleCompare(_, _)
LocaleCompare(a, b) ==
  IF a = <<>> THEN (IF b = <<>> THEN 0 ELSE -1)
  ELSE IF b = <<>> THEN 1
  ELSE IF CharRank(Head(a)) < CharRank(Head(b)) THEN -1
  ELSE IF CharRank(Head(a)) > CharRank(Head(b)) THEN 1
  ELSE LocaleCompare(Tail(a), Tail(b))

\* tile.textContent.trim() of every tile, the empty ones filtered out
TileTitles(raw) == SelectSeq(raw, LAMBDA t : t # <<>>)

\* [...titles].sort((a, b) => a.localeCompare(b)): insertion into a sorted run
RECURSIVE InsertAsc(_, _)
InsertAsc(x, s) ==
  IF s = <<>> THEN <<x>>
  ELSE IF LocaleCompare(x, Head(s)) < 0 THEN <<x>> \o s
  ELSE <<Head(s)>> \o InsertAsc(x, Tail(s))

RECURSIVE SortAsc(_)
SortAsc(s) == IF s = <<>> THEN <<>> ELSE InsertAsc(s[Len(s)], SortAsc(SubSeq(s, 1, Len(s) - 1)))

RECURSIVE Reverse(_)
Reverse(s) == IF s = <<>> THEN <<>> ELSE Reverse(Tail(s)) \o <<Head(s)>>

\* [...titles].sort((a, b) => b.localeCompare(a))
SortDesc(s) == Reverse(SortAsc(s))

\* titles.join('|'): one string, the titles separated by "|"
RECURSIVE Join(_)
Join(titles) ==
  IF titles = <<>> THEN <<>>
  ELSE IF Len(titles) = 1 THEN titles[1]
  ELSE titles[1] \o <<"|">> \o Join(Tail(titles))

\* the orders are compared through their joined strings
CurrentSortStatus(titles) ==
  IF Join(titles) = Join(SortAsc(titles)) THEN "ALPHABETICAL"
  ELSE IF Join(titles) = Join(SortDesc(titles)) THEN "REVERSE_ALPHABETICAL"
  ELSE "UNSORTED"

\* selectionTexts.includes('quick tips') || selectionTexts.includes('videos') || ...
ProblematicTexts == {"Quick Tips", "Videos"}
IsProblematicCombo(selection) == \E k \in 1..Len(selection) : selection[k].text \in ProblematicTexts

\* validateNoResultsMessage: a script error is caught, found: false
ValidateNoResultsMessage(obs, scriptError) ==
  IF scriptError THEN [found |-> FALSE, isVisible |-> FALSE]
  ELSE [found |-> obs.canon # "", isVisible |-> obs.canon # "" /\ obs.canonShown]

SortResult(st, cond, cur, probes) ==
  [status |-> st, condition |-> cond, currentSortStatus |-> cur, probes |-> probes]

InsufficientTiles == "Insufficient tiles (< 2) for sort validation"

SortEarlyBranchNoMinimum(selection, tv, obs, scriptError) ==
  LET nrv == ValidateNoResultsMessage(obs, scriptError)
  IN  IF tv.hasNoResultsMessage /\ tv.visible = 0 /\ nrv.found /\ nrv.isVisible
      THEN "noResults"
      ELSE IF IsProblematicCombo(selection) /\ tv.visible = 0 THEN "problematic"
      ELSE IF tv.visible < 1 THEN "insufficient"
      ELSE "scripts"

\* which branch of validateSortByForVisibleTiles an attempt takes before
\* its first sort script
SortEarlyBranch(selection, tv, obs, scriptError) ==
  LET nrv == ValidateNoResultsMessage(obs, scriptError)
  IN  IF tv.hasNoResultsMessage /\ tv.visible = 0 /\ nrv.found /\ nrv.isVisible
      THEN "noResults"
      ELSE IF IsProblematicCombo(selection) /\ tv.visible = 0 THEN "problematic"
      ELSE IF tv.visible < MinTilesForSort THEN "insufficient"
      ELSE "scripts"

\* validateSortByForVisibleTiles without the sort-control lookup
ValidateSortByNoLookup(selection, tv, obs, scriptError) ==
  LET branch == SortEarlyBranch(selection, tv, obs, scriptError)
      asked == IF tv.hasNoResultsMessage /\ tv.visible = 0 THEN {"noResultsCheck"} ELSE {}
      titles == TileTitles(obs.titles)
  IN  CASE branch = "noResults" ->
             SortResult("VALIDATED_WITH_NO_RESULTS",
                        "No tiles to sort (valid no results message displayed)", "", asked)
        [] branch = "problematic" ->
             SortResult("VALIDATED_NO_TILES",
                        "No tiles to sort (known problematic combination)", "",
                        {"noResultsCheck"})
        [] branch = "insufficient" ->
             SortResult("NOT_APPLICABLE", InsufficientTiles, "", asked)
        [] OTHER ->
             IF obs.bolt < 2 \/ Len(titles) < 2
             THEN SortResult("NOT_APPLICABLE", "Not evaluated", "",
                             asked \cup {"sortScript"})
             ELSE SortResult("VALIDATED", "Sufficient tiles and sort controls available",
                             CurrentSortStatus(titles),
                             asked \cup {"sortScript", "sortCompare"})

\* one attempt of validateSortByForVisibleTiles that raises nothing
ValidateSortBy(selection, tv, obs, scriptError) ==
  LET branch == SortEarlyBranch(selection, tv, obs, scriptError)
      asked == IF tv.hasNoResultsMessage /\ tv.visible = 0 THEN {"noResultsCheck"} ELSE {}
      titles == TileTitles(obs.titles)
  IN  CASE branch = "noResults" ->
             SortResult("VALIDATED_WITH_NO_RESULTS",
                        "No tiles to sort (valid no results message displayed)", "", asked)
        [] branch = "problematic" ->
             SortResult("VALIDATED_NO_TILES",
                        "No tiles to sort (known problematic combination)", "",
                        {"noResultsCheck"})
        [] branch = "insufficient" ->
             SortResult("NOT_APPLICABLE", InsufficientTiles, "", asked)
        [] OTHER ->
             IF ~obs.sortCtl
             THEN SortResult("NOT_APPLICABLE", "No sort controls available on page", "",
                             asked \cup {"sortControls"})
             ELSE IF obs.bolt < 2 \/ Len(titles) < 2
             THEN SortResult("NOT_APPLICABLE", "Not evaluated", "",
                             asked \cup {"sortControls", "sortScript"})
             ELSE SortResult("VALIDATED", "Sufficient tiles and sort controls available",
                             CurrentSortStatus(titles),
                             asked \cup {"sortControls", "sortScript", "sortCompare"})

\* ------------------------------------------------------------------------
\* testSingleCombination
\* ------------------------------------------------------------------------
\* Faults the environment may inject while one combination is tested:
\*   verifyThrow   the driver raises while dropdown `at` is re-read
\*   detectErr     the tile detection script raises
\*   tile1, tile2  1 or 2 attempts of validateTileCount raise (scroll or
\*                 re-check script)
\*   noResErr      the script of validateNoResultsMessage raises
\*   sort1, sort2  1 or 2 attempts of validateSortByForVisibleTiles raise
\*                 (sort-control lookup or sort script)
LeafFault(k, a) == [kind |-> k, at |-> a]
NoFault == LeafFault("none", 0)

LeafFaults(n) ==
  {NoFault} \cup {LeafFault("verifyThrow", a) : a \in 1..n}
            \cup {LeafFault(k, 0) : k \in {"detectErr", "tile1", "tile2",
                                           "noResErr", "sort1", "sort2"}}

NoVerifyFailure(selection, page, fault) == 0

\* first dropdown (1-based) whose re-verification does not pass, 0 if all pass
FirstVerifyFailure(selection, page, fault) ==
  LET bad == {i \in 1..Len(selection) :
                \/ (fault.kind = "verifyThrow" /\ fault.at = i)
                \/ page[i] # selection[i].value}
  IN  IF bad = {} THEN 0 ELSE CHOOSE i \in bad : \A j \in bad : i <= j

\* result.options.push({ dropdown, value, text })
OptionEntry(i, opt) == [dropdown |-> i, value |-> opt.value, text |-> opt.text]

OptionEntries(selection, n) == [i \in 1..n |-> OptionEntry(i, selection[i])]

InitialTileCount ==
  [total |-> 0, visible |-> 0, status |-> "NOT_VALIDATED",
   hasNoResultsMessage |-> FALSE, noResultsText |-> "", strategies |-> ""]

InitialSortBy ==
  [status |-> "NOT_APPLICABLE", tilesToSort |-> 0, currentSortStatus |-> "",
   condition |-> "Not evaluated yet"]

\* step 4 of testSingleCombination: the verdict from the tile observation
ClassifyEmptyFails(tv) ==
  IF tv.visible > 0
  THEN [status |-> "PASSED", tileStatus |-> "VALIDATED", error |-> NoError]
  ELSE [status |-> "FAILED", tileStatus |-> "NO_VISIBLE_TILES",
        error |-> ExpectedNoTilesNote]

Classify(tv) ==
  LET hasCorrect == tv.hasNoResultsMessage /\ IncludesCanonical(tv.noResultsText)
  IN  IF tv.visible > 0
      THEN [status |-> "PASSED", tileStatus |-> "VALIDATED", error |-> NoError]
      ELSE IF hasCorrect
      THEN [status |-> "PASSED", tileStatus |-> "VALIDATED_WITH_NO_RESULTS",
            error |-> ExpectedNoResultsNote]
      ELSE IF tv.hasNoResultsMessage
      THEN [status |-> "PASSED", tileStatus |-> "HAS_MESSAGE_BUT_NOT_EXPECTED",
            error |-> UnexpectedMessageNote]
      ELSE [status |-> "PASSED", tileStatus |-> "NO_VISIBLE_TILES",
            error |-> ExpectedNoTilesNote]

\* does the fault hit a driver call this combination actually makes?
LeafFaultApplies(selection, page, obs, fault) ==
  LET k == fault.kind
      vf == FirstVerifyFailure(selection, page, NoFault)
      tv == ValidateTileCount(obs, FALSE)
  IN  \/ k = "none"
      \/ k = "verifyThrow" /\ (vf = 0 \/ fault.at < vf)
      \/ k \in {"detectErr", "tile1", "tile2"} /\ vf = 0
      \/ /\ k = "noResErr" /\ vf = 0
         /\ tv.visible = 0 /\ (tv.hasNoResultsMessage \/ IsProblematicCombo(selection))
      \/ /\ k \in {"sort1", "sort2"} /\ vf = 0
         /\ SortEarlyBranch(selection, tv, obs, FALSE) = "scripts"

FailedLeafKeepsStatus(selection, comboNumber, nOptions, err, counts, probes) ==
  [result |-> [number |-> comboNumber,
               selection |-> selection,
               options |-> OptionEntries(selection, nOptions),
               status |-> "PASSED",
               error |-> err,
               tileCount |-> [InitialTileCount EXCEPT !.status = "ERROR"],
               sortByValidation |-> InitialSortBy],
   counts |-> counts, probes |-> probes]

\* the catch of testSingleCombination: the result as it stands, marked FAILED
FailedLeaf(selection, comboNumber, nOptions, err, counts, probes) ==
  [result |-> [number |-> comboNumber,
               selection |-> selection,
               options |-> OptionEntries(selection, nOptions),
               status |-> "FAILED",
               error |-> err,
               tileCount |-> [InitialTileCount EXCEPT !.status = "ERROR"],
               sortByValidation |-> InitialSortBy],
   counts |-> counts, probes |-> probes]

TestSingleCombination(selection, page, obs, fault, comboNumber, counts) ==
  LET n == Len(selection)
      vf == FirstVerifyFailure(selection, page, fault)
      tileFails == IF fault.kind = "tile1" THEN 1 ELSE IF fault.kind = "tile2" THEN 2 ELSE 0
      sortFails == IF fault.kind = "sort1" THEN 1 ELSE IF fault.kind = "sort2" THEN 2 ELSE 0
      tileRun == RetryOutcome(counts, "tileValidation", tileFails, MaxRetriesTileValidation)
      tv == ValidateTileCount(obs, fault.kind = "detectErr")
      sortRun == RetryOutcome(tileRun.counts, "sortByValidation", sortFails,
                              MaxRetriesSortByValidation)
      sv == ValidateSortBy(selection, tv, obs, fault.kind = "noResErr")
      verdict == Classify(tv)
  IN  IF vf # 0
      THEN FailedLeaf(selection, comboNumber, vf - 1,
                      IF fault.kind = "verifyThrow" /\ fault.at = vf
                        THEN DriverError ELSE VerificationError(vf),
                      counts, {})
      ELSE IF ~tileRun.ok
      THEN FailedLeaf(selection, comboNumber, n, ExhaustedError("tileValidation"),
                      tileRun.counts, {})
      ELSE IF ~sortRun.ok
      THEN [FailedLeaf(selection, comboNumber, n, ExhaustedError("sortByValidation"),
                       sortRun.counts, {"tiles"})
              EXCEPT !.result.tileCount =
                        [total |-> tv.total, visible |-> tv.visible, status |-> "ERROR",
                         hasNoResultsMessage |-> tv.hasNoResultsMessage,
                         noResultsText |-> tv.noResultsText,
                         strategies |-> tv.strategies]]
      ELSE [result |-> [number |-> comboNumber,
                        selection |-> selection,
                        options |-> OptionEntries(selection, n),
                        status |-> verdict.status,
                        error |-> verdict.error,
                        tileCount |-> [total |-> tv.total, visible |-> tv.visible,
                                       status |-> verdict.tileStatus,
                                       hasNoResultsMessage |-> tv.hasNoResultsMessage,
                                       noResultsText |-> tv.noResultsText,
                                       strategies |-> tv.strategies],
                        sortByValidation |-> [status |-> sv.status,
                                              tilesToSort |-> tv.visible,
                                              currentSortStatus |-> sv.currentSortStatus,
                                              condition |-> sv.condition]],
            counts |-> sortRun.counts,
            probes |-> {"tiles"} \cup sv.probes]

\* ------------------------------------------------------------------------
\* State
\* ------------------------------------------------------------------------
VARIABLES
  cfg,            \* the page under test: its <select> controls
  profile,        \* which content the page shows for which filter values
  pageVal,        \* select.value of every dropdown, as the page holds it
  phase,          \* runTests for the URL: setup, ready, enumerating, done, error
  attempt,        \* attempt number of executeWithRetry('testAllCombinations')
  optionsArray,   \* dropdownOptions of the running attempt
  stack,          \* activation frames of testCombosRecursive
  results,        \* results of the running attempt
  totalTests, passedTests, failedTests,
  retryCounts,    \* this.retryCounts
  faults,         \* environment faults injected so far
  resetLog,       \* what the last resetNextDropdowns did, until the next selection
  probeLog,       \* page probes made by the last testSingleCombination
  selFailed,      \* some call of selectDropdownOption has raised in this run
  urlResult,      \* the URL's result record
  retry,          \* one call of executeWithRetry, step by step (SpecRetry)
  suite,          \* one call of runTests over the loaded URLs (SpecRun)
  monitor,        \* the liveness monitor and its recoveries (SpecMonitor)
  sorting,        \* one run of the sort script on a page's tiles (SpecSort)
  logging         \* the validation-log buffer and its file (SpecBuffer)

runVars == << cfg, profile, pageVal, phase, attempt, optionsArray, stack, results,
              totalTests, passedTests, failedTests, faults, resetLog, probeLog,
              selFailed, urlResult >>

vars == << runVars, retryCounts, retry, suite, monitor, sorting, logging >>

NDropdowns == Len(cfg)

Frame(d, k, p) == [idx |-> d, i |-> k, ph |-> p]

\* currentSelection of the innermost activation: the options the enclosing
\* activations have selected
CurrentSelection(st, opts) == [k \in 1..(Len(st) - 1) |-> opts[k][st[k].i + 1]]

NoReset == [frame |-> -1, touched |-> {}, ok |-> {}, issued |-> << >>, noOptions |-> {}]

PendingUrlResult ==
  [status |-> "PENDING", error |-> NoError,
   summary |-> [passed |-> 0, failed |-> 0, total |-> 0],
   combosWithCorrectNoResultsMessage |-> 0,
   combosWithNoResultsMessage |-> 0,
   combinations |-> 0]

RetryIdle == [pc |-> "idle", variant |-> "v5", nth |-> 0]

SuiteIdle == [pc |-> "idle"]

MonitorIdle == [pc |-> "off"]

SortIdle == [pc |-> "idle"]

LogIdle == [pc |-> "off"]

RunInit ==
  /\ cfg \in PageConfigs
  /\ profile \in Profiles
  /\ pageVal = [d \in 1..Len(cfg) |-> LoadedValue(cfg[d])]
  /\ phase = "setup"
  /\ attempt = 1
  /\ optionsArray = <<>>
  /\ stack = <<>>
  /\ results = <<>>
  /\ totalTests = 0 /\ passedTests = 0 /\ failedTests = 0
  /\ faults = 0
  /\ resetLog = NoReset
  /\ probeLog = {}
  /\ selFailed = FALSE
  /\ urlResult = PendingUrlResult

Init ==
  /\ RunInit
  /\ retryCounts = InitRetryCounts
  /\ retry = RetryIdle
  /\ suite = SuiteIdle
  /\ monitor = MonitorIdle
  /\ sorting = SortIdle
  /\ logging = LogIdle

\* ------------------------------------------------------------------------
\* selectDropdownOption: executeWithRetry('selection', ..., 2) around
\* set value, dispatch events, settle, re-read.
\*   ok           first attempt sets and verifies the value
\*   okRetry      first attempt fails, second succeeds
\*   okRevert     succeeds, and the page's change handler puts the previous
\*                dropdown back to its default
\*   fail         both attempts fail, the control keeps its value
\*   failApplied  both attempts fail after the value was set
\* ------------------------------------------------------------------------
SelOutcomes == {"ok", "okRetry", "okRevert", "fail", "failApplied"}

SelFails(outcome) ==
  CASE outcome \in {"ok", "okRevert"} -> 0
    [] outcome = "okRetry" -> 1
    [] OTHER -> MaxRetriesSelection

SelCost(outcome) == IF outcome = "ok" THEN 0 ELSE 1

PageDefault(c, d) == DefaultOpt(ExtractOptions(c[d])).value

SelectDropdownOption(page, counts, c, d, opt, outcome) ==
  LET run == RetryOutcome(counts, "selection", SelFails(outcome), MaxRetriesSelection)
      set == [page EXCEPT ![d] = opt.value]
  IN  [threw |-> ~run.ok,
       value |-> run.ok,
       counts |-> run.counts,
       page |-> CASE outcome \in {"ok", "okRetry", "failApplied"} -> set
                  [] outcome = "okRevert" ->
                       IF d > 1 THEN [set EXCEPT ![d - 1] = PageDefault(c, d - 1)] ELSE set
                  [] OTHER -> page]

\* ------------------------------------------------------------------------
\* resetNextDropdowns(dropdownElements, optionsArray, startIdx): for every
\* dropdown from startIdx on, re-extract the options and select the default;
\* whatever is raised for one dropdown is swallowed.  `how` gives, for each
\* dropdown, the outcome of its selection, or "optionsFail" when
\* getDropdownOptions raises.  d is 1-based.
\* ------------------------------------------------------------------------
ResetOutcomes == SelOutcomes \cup {"optionsFail"}

\* a loop that leaves at the first dropdown it fails to reset
RECURSIVE ResetFromUntilFailure(_, _, _, _, _, _)
ResetFromUntilFailure(page, counts, c, d, how, log) ==
  IF d > Len(c) THEN [page |-> page, counts |-> counts, log |-> log]
  ELSE IF how[d] = "optionsFail"
  THEN [page |-> page, counts |-> counts, log |-> [log EXCEPT !.noOptions = @ \cup {d}]]
  ELSE LET r == SelectDropdownOption(page, counts, c, d,
                                     DefaultOpt(ExtractOptions(c[d])), how[d])
           lg == [log EXCEPT !.touched = @ \cup {d},
                             !.ok = IF r.threw THEN @ ELSE @ \cup {d},
                             !.issued = Append(@, [d |-> d,
                                           value |-> DefaultOpt(ExtractOptions(c[d])).value])]
       IN  IF r.threw THEN [page |-> r.page, counts |-> r.counts, log |-> lg]
           ELSE ResetFromUntilFailure(r.page, r.counts, c, d + 1, how, lg)

\* the log keeps, besides the dropdowns touched and reset, the selections
\* issued in order (issued) and the dropdowns whose getDropdownOptions
\* raised (noOptions)
RECURSIVE ResetFrom(_, _, _, _, _, _)
ResetFrom(page, counts, c, d, how, log) ==
  IF d > Len(c) THEN [page |-> page, counts |-> counts, log |-> log]
  ELSE IF how[d] = "optionsFail"
  THEN ResetFrom(page,
                 RetryOutcome(counts, "dropdownOptions", MaxRetriesDropdownOptions,
                              MaxRetriesDropdownOptions).counts,
                 c, d + 1, how, [log EXCEPT !.noOptions = @ \cup {d}])
  ELSE LET opts == ExtractOptions(c[d])
           got == RetryOutcome(counts, "dropdownOptions", 0, MaxRetriesDropdownOptions)
           r == SelectDropdownOption(page, got.counts, c, d, DefaultOpt(opts), how[d])
       IN  ResetFrom(r.page, r.counts, c, d + 1, how,
                     [log EXCEPT !.touched = @ \cup {d},
                                 !.ok = IF r.threw THEN @ ELSE @ \cup {d},
                                 !.issued = Append(@, [d |-> d,
                                                       value |-> DefaultOpt(opts).value])])

ResetNextDropdowns(page, counts, c, startIdx, how) ==
  ResetFrom(page, counts, c, startIdx + 1, how,
            [frame |-> startIdx - 1, touched |-> {}, ok |-> {},
             issued |-> << >>, noOptions |-> {}])

ResetCost(how) == Cardinality({d \in DOMAIN how : how[d] # "ok"})

\* ------------------------------------------------------------------------
\* runTests, one URL: driver start, navigation, discovery, resetToDefault.
\* resetToDefault clicks the page's reset button, or, when there is none,
\* selects every dropdown's default option.
\* ------------------------------------------------------------------------
SetupUrl ==
  /\ phase = "setup"
  /\ \E viaButton \in BOOLEAN :
       pageVal' = [d \in 1..NDropdowns |->
                     IF viaButton THEN LoadedValue(cfg[d]) ELSE PageDefault(cfg, d)]
  /\ phase' = "ready"
  /\ UNCHANGED << cfg, profile, attempt, optionsArray, stack, results, totalTests,
                  passedTests, failedTests, faults, resetLog, probeLog, selFailed,
                  urlResult, retryCounts, retry, suite, monitor, sorting, logging >>

\* executeWithRetry('testAllCombinations', ..., maxRetries.overall): the
\* operation raised.  Retry with a fresh result list, or give up: runTests
\* catches the error and marks the URL.
AttemptFails(counts) ==
  /\ retryCounts' = [counts EXCEPT !["testAllCombinations"] = OrZero(@) + 1]
  /\ stack' = <<>>
  /\ resetLog' = NoReset
  /\ IF attempt < MaxRetriesOverall
     THEN /\ attempt' = attempt + 1
          /\ phase' = "ready"
          /\ urlResult' = urlResult
     ELSE /\ attempt' = attempt
          /\ phase' = "error"
          /\ urlResult' = [urlResult EXCEPT !.status = "ERROR",
                                            !.error = ExhaustedError("testAllCombinations")]

KeptResults(res) == res

\* const results = [] at the head of every attempt of testAllCombinations
FreshResults(res) == << >>

\* testAllCombinations, up to the first call of testCombosRecursive
BeginAttempt ==
  /\ phase = "ready"
  /\ \E optionsOk \in BOOLEAN :
       /\ ~optionsOk => faults < MaxFaults
       /\ faults' = IF optionsOk THEN faults ELSE faults + 1
       /\ IF optionsOk
          THEN /\ optionsArray' = [d \in 1..NDropdowns |-> ExtractOptions(cfg[d])]
               /\ results' = FreshResults(results)
               /\ stack' = << Frame(0, 0, "select") >>
               /\ phase' = "enumerating"
               /\ retryCounts' = RetryOutcome(retryCounts, "dropdownOptions", 0,
                                              MaxRetriesDropdownOptions).counts
               /\ UNCHANGED << attempt, urlResult, resetLog >>
          ELSE /\ AttemptFails(RetryOutcome(retryCounts, "dropdownOptions",
                                            MaxRetriesDropdownOptions,
                                            MaxRetriesDropdownOptions).counts)
               /\ UNCHANGED << optionsArray, results >>
  /\ UNCHANGED << cfg, profile, pageVal, totalTests, passedTests, failedTests,
                  probeLog, selFailed, retry, suite, monitor, sorting, logging >>

\* results.length + 1
ComboNumberFromZero(res) == Len(res)

ComboNumber(res) == Len(res) + 1

Top == stack[Len(stack)]
Pop(st) == SubSeq(st, 1, Len(st) - 1)
ReplaceTop(st, f) == [st EXCEPT ![Len(st)] = f]

\* the synthetic result testCombosRecursive records when a selection
\* returns false
SyntheticFailure(newSelection, number, d) ==
  [number |-> number,
   selection |-> newSelection,
   options |-> newSelection,
   status |-> "FAILED",
   error |-> SelectFailedError(d),
   tileCount |-> InitialTileCount,
   sortByValidation |-> InitialSortBy]

\* testCombosRecursive: one turn of the loop up to the recursive call
SelectStep ==
  /\ phase = "enumerating"
  /\ stack # <<>>
  /\ Top.idx < NDropdowns
  /\ Top.ph = "select"
  /\ \E outcome \in SelOutcomes :
       LET d == Top.idx + 1
           opt == optionsArray[d][Top.i + 1]
           r == SelectDropdownOption(pageVal, retryCounts, cfg, d, opt, outcome)
       IN  /\ faults + SelCost(outcome) <= MaxFaults
           /\ outcome = "okRevert" => d > 1
           /\ faults' = faults + SelCost(outcome)
           /\ pageVal' = r.page
           /\ selFailed' = (selFailed \/ r.threw)
           /\ IF r.threw
              THEN /\ AttemptFails(r.counts)
                   /\ UNCHANGED << results >>
              ELSE /\ retryCounts' = r.counts
                   /\ resetLog' = NoReset
                   /\ UNCHANGED << attempt, phase, urlResult >>
                   /\ IF r.value
                      THEN /\ stack' = Append(ReplaceTop(stack, Frame(Top.idx, Top.i, "after")),
                                              Frame(Top.idx + 1, 0, "select"))
                           /\ UNCHANGED results
                      ELSE /\ results' = Append(results,
                                  SyntheticFailure(Append(CurrentSelection(stack, optionsArray), opt),
                                                   ComboNumber(results), d))
                           /\ stack' = ReplaceTop(stack, Frame(Top.idx, Top.i, "after"))
  /\ UNCHANGED << cfg, profile, optionsArray, totalTests, passedTests, failedTests,
                  probeLog, retry, suite, monitor, sorting, logging >>

\* testCombosRecursive at idx >= optionsArray.length: test the combination
\* and record its result
LeafStep ==
  /\ phase = "enumerating"
  /\ stack # <<>>
  /\ Top.idx = NDropdowns
  /\ LET sel == CurrentSelection(stack, optionsArray)
         obs == PageObs(profile, sel, optionsArray)
     IN  \E fault \in LeafFaults(NDropdowns) :
           LET r == TestSingleCombination(sel, pageVal, obs, fault,
                                          ComboNumber(results), retryCounts)
           IN  /\ LeafFaultApplies(sel, pageVal, obs, fault)
               /\ fault # NoFault => faults < MaxFaults
               /\ faults' = IF fault = NoFault THEN faults ELSE faults + 1
               /\ results' = Append(results, r.result)
               /\ retryCounts' = r.counts
               /\ probeLog' = r.probes
               /\ totalTests' = totalTests + 1
               /\ passedTests' = passedTests + (IF r.result.status = "PASSED" THEN 1 ELSE 0)
               /\ failedTests' = failedTests + (IF r.result.status = "FAILED" THEN 1 ELSE 0)
  /\ stack' = Pop(stack)
  /\ UNCHANGED << cfg, profile, pageVal, phase, attempt, optionsArray, resetLog,
                  selFailed, urlResult, retry, suite, monitor, sorting, logging >>

\* testCombosRecursive after the recursive call (or the synthetic failure):
\* reset the following dropdowns when another option is to come, then go on
\* with the next option; leave the loop after the last one
AfterStep ==
  /\ phase = "enumerating"
  /\ stack # <<>>
  /\ Top.idx < NDropdowns
  /\ Top.ph = "after"
  /\ LET last == Top.i >= Len(optionsArray[Top.idx + 1]) - 1
         resets == ~last /\ Top.idx < NDropdowns - 1
     IN  /\ stack' = IF last THEN Pop(stack)
                     ELSE ReplaceTop(stack, Frame(Top.idx, Top.i + 1, "select"))
         /\ IF resets
            THEN \E how \in [(Top.idx + 2)..NDropdowns -> ResetOutcomes] :
                   LET r == ResetNextDropdowns(pageVal, retryCounts, cfg, Top.idx + 1, how)
                   IN  /\ faults + ResetCost(how) <= MaxFaults
                       /\ faults' = faults + ResetCost(how)
                       /\ pageVal' = r.page
                       /\ retryCounts' = r.counts
                       /\ resetLog' = r.log
                       /\ selFailed' = (selFailed \/ r.log.touched # r.log.ok)
            ELSE UNCHANGED << faults, pageVal, retryCounts, resetLog, selFailed >>
  /\ UNCHANGED << cfg, profile, phase, attempt, optionsArray, results, totalTests,
                  passedTests, failedTests, probeLog, urlResult, retry, suite, monitor, sorting, logging >>

\* testAllCombinations returns its results; runTests derives the URL summary
FinishUrl ==
  /\ phase = "enumerating"
  /\ stack = <<>>
  /\ phase' = "done"
  /\ retryCounts' = [retryCounts EXCEPT !["testAllCombinations"] = 0]
  /\ LET passed == CountIf(results, LAMBDA c : c.status \in {"PASSED", "PARTIAL"})
         failed == CountIf(results, LAMBDA c : c.status = "FAILED")
     IN  urlResult' =
           [status |-> IF failed > 0 THEN "FAILED"
                       ELSE IF passed > 0 THEN "PASSED" ELSE "SKIPPED",
            error |-> NoError,
            summary |-> [passed |-> passed, failed |-> failed, total |-> Len(results)],
            combosWithCorrectNoResultsMessage |->
               CountIf(results, LAMBDA c : IncludesCanonical(c.tileCount.noResultsText)),
            combosWithNoResultsMessage |->
               CountIf(results, LAMBDA c : c.tileCount.hasNoResultsMessage),
            combinations |-> Len(results)]
  /\ UNCHANGED << cfg, profile, pageVal, attempt, optionsArray, stack, results,
                  totalTests, passedTests, failedTests, faults, resetLog, probeLog,
                  selFailed, retry, suite, monitor, sorting, logging >>

Next ==
  \/ SetupUrl
  \/ BeginAttempt
  \/ SelectStep
  \/ LeafStep
  \/ AfterStep
  \/ FinishUrl

Spec == Init /\ [][Next]_vars

\* ------------------------------------------------------------------------
\* executeWithRetry, step by step.
\*   variant  "v5": dropdown-validator5.js and later (part_000);
\*            "v3": dropdown-validator3.js
\*   plan     the operation raises on its first `plan` invocations and
\*            returns a value on the next one
\*   attempt  the loop variable; calls counts the invocations of the operation
\*   recovered  recovery actions run so far in this call
\*   err      the error the call ends with; cause is the attempt whose
\*            error the message carries (0: none)
\*   delay    milliseconds of the backoff wait in progress (0: none)
\*   waited   backoff waits made so far in this call
\*   action   the recovery action run last ("": none)
\*   currentOperation, stamp   this.currentOperation, and the attempt at
\*            whose start executeWithRetry last called updateActivity()
\* ------------------------------------------------------------------------
RetryOps == {"navigation", "dropdownFinding", "selection", "testAllCombinations"}
RetryVariants == {"v5", "v3"}

\* operation names whose recovery action talks to the driver
DriverRecoveryOps == {"navigation", "dropdownFinding"}

RetryErr(k, o, c) == [kind |-> k, op |-> o, cause |-> c]
NoRetryErr == RetryErr("none", "", 0)

\* const delay = Math.min(1000 * Math.pow(2, attempt - 1), 10000) + Math.random() * 1000
BackoffDelayUncapped(a, jitter) == BackoffBase * 2^(a - 1) + jitter

BackoffDelay(a, jitter) ==
  (IF BackoffBase * 2^(a - 1) < BackoffCap
   THEN BackoffBase * 2^(a - 1) ELSE BackoffCap) + jitter

\* Math.random() * 1000, in whole milliseconds: the ends and a middle value
Jitters == {0, JitterRange \div 2, JitterRange - 1}

PerformRecoveryWaitOnly(variant, op) == "wait"

\* performRecovery: the action keyed by operation name
\*   v5: actions[opName] || actions.default;  v3: switch (operationName)
PerformRecovery(variant, op) ==
  CASE op = "navigation" -> "clearCookies"
    [] op = "dropdownFinding" -> "reloadThenWait"
    [] OTHER -> "wait"

\* the operation names an attempt of an operation runs executeWithRetry
\* with itself; the last of them is the marker the attempt leaves behind
MarkerAfterAttempt(op) == IF op = "testAllCombinations" THEN "selection" ELSE op

\* this.currentOperation = opName; this.updateActivity() at the head of
\* executeWithRetry.  v3 keeps neither
MarksProgress(variant) == variant = "v5"

RetryCallState(v, o, m, pl, n) ==
  [pc |-> "attempt", variant |-> v, op |-> o, max |-> m, plan |-> pl,
   attempt |-> 1, calls |-> 0, recovered |-> 0, err |-> NoRetryErr, nth |-> n,
   delay |-> 0, waited |-> 0, action |-> "",
   currentOperation |-> IF MarksProgress(v) THEN o ELSE "null",
   stamp |-> IF MarksProgress(v) THEN 1 ELSE 0]

\* the counter after a successful attempt
\*   v5: this.retryCounts[opName] = 0
\*   v3: if (this.retryCounts[operationName]) this.retryCounts[operationName] = 0
CountAfterSuccess(variant, c) ==
  IF variant = "v5" THEN 0
  ELSE IF c # Undefined /\ c # 0 THEN 0 ELSE c

\* the counter after a failed attempt
\*   v5: this.retryCounts[opName] = (this.retryCounts[opName] || 0) + 1
\*   v3: if (this.retryCounts[operationName]) this.retryCounts[operationName] = (... || 0) + 1
CountAfterFailure(variant, c) ==
  IF variant = "v5" THEN OrZero(c) + 1
  ELSE IF c # Undefined /\ c # 0 THEN c + 1 ELSE c

\* does an error raised by the recovery action leave executeWithRetry?
\*   v5: performRecovery awaits the driver call unguarded
\*   v3: every driver call of performRecovery sits in try { } catch { }
RecoveryErrorEscapes(variant) == variant = "v5"

RetryInit ==
  /\ cfg = ScenarioConfig
  /\ profile = 0
  /\ pageVal = [d \in 1..Len(cfg) |-> LoadedValue(cfg[d])]
  /\ phase = "setup"
  /\ attempt = 1
  /\ optionsArray = <<>>
  /\ stack = <<>>
  /\ results = <<>>
  /\ totalTests = 0 /\ passedTests = 0 /\ failedTests = 0
  /\ faults = 0
  /\ resetLog = NoReset
  /\ probeLog = {}
  /\ selFailed = FALSE
  /\ urlResult = PendingUrlResult
  /\ retryCounts = InitRetryCounts
  /\ retry = [pc |-> "idle", variant |-> "v5", nth |-> 0]
  /\ suite = SuiteIdle
  /\ monitor = MonitorIdle
  /\ sorting = SortIdle
  /\ logging = LogIdle

\* a caller invokes executeWithRetry(opName, opFn, maxRetries)
RetryCall ==
  /\ retry.pc \in {"idle", "returned", "thrown"}
  /\ retry.nth < MaxCalls
  /\ \E v \in (IF retry.nth = 0 THEN RetryVariants ELSE {retry.variant}),
        o \in RetryOps, m \in 0..MaxRetryArg, pl \in 0..MaxRetryArg :
       retry' = IF m >= 1
                THEN RetryCallState(v, o, m, pl, retry.nth + 1)
                ELSE [RetryCallState(v, o, m, pl, retry.nth + 1)
                        EXCEPT !.pc = "thrown", !.err = RetryErr("exhausted", o, 0)]
  /\ UNCHANGED << runVars, retryCounts, suite, monitor, sorting, logging >>

\* one turn of the loop: the operation is invoked and returns or raises
RetryAttempt ==
  /\ retry.pc = "attempt"
  /\ LET succeeds == retry.calls >= retry.plan
         c == retryCounts[retry.op]
     IN  IF succeeds
         THEN /\ retryCounts' = [retryCounts EXCEPT ![retry.op] =
                                    CountAfterSuccess(retry.variant, c)]
              /\ retry' = [retry EXCEPT !.pc = "returned", !.calls = @ + 1,
                                        !.currentOperation =
                                           IF MarksProgress(retry.variant)
                                           THEN MarkerAfterAttempt(retry.op) ELSE @]
         ELSE /\ retryCounts' = [retryCounts EXCEPT ![retry.op] =
                                    CountAfterFailure(retry.variant, c)]
              /\ retry' = [retry EXCEPT
                             !.calls = @ + 1,
                             !.currentOperation =
                                IF MarksProgress(retry.variant)
                                THEN MarkerAfterAttempt(retry.op) ELSE @,
                             !.pc = IF retry.attempt < retry.max THEN "backoff" ELSE "thrown",
                             !.err = IF retry.attempt < retry.max THEN NoRetryErr
                                     ELSE RetryErr("exhausted", retry.op,
                                                   IF retry.variant = "v3"
                                                     THEN retry.attempt ELSE 0)]
  /\ UNCHANGED << runVars, suite, monitor, sorting, logging >>

\* await this.delay(delay)
RetryBackoff ==
  /\ retry.pc = "backoff"
  /\ \E jitter \in Jitters :
       retry' = [retry EXCEPT !.pc = "recovery", !.waited = @ + 1,
                              !.delay = BackoffDelay(retry.attempt, jitter)]
  /\ UNCHANGED << runVars, retryCounts, suite, monitor, sorting, logging >>

\* await this.performRecovery(opName, attempt, ctx): the driver call of the
\* recovery action may raise
RetryRecover ==
  /\ retry.pc = "recovery"
  /\ \E raises \in BOOLEAN :
       /\ raises => retry.op \in DriverRecoveryOps
       /\ retry' = IF raises /\ RecoveryErrorEscapes(retry.variant)
                   THEN [retry EXCEPT !.pc = "thrown",
                                      !.recovered = @ + 1,
                                      !.delay = 0,
                                      !.action = PerformRecovery(retry.variant, retry.op),
                                      !.err = RetryErr("recoveryFailed", "", 0)]
                   ELSE [retry EXCEPT !.pc = "attempt",
                                      !.recovered = @ + 1,
                                      !.delay = 0,
                                      !.action = PerformRecovery(retry.variant, retry.op),
                                      !.attempt = @ + 1]
  /\ UNCHANGED << runVars, retryCounts, suite, monitor, sorting, logging >>

NextRetry ==
  \/ RetryCall
  \/ RetryAttempt
  \/ RetryBackoff
  \/ RetryRecover

SpecRetry == RetryInit /\ [][NextRetry]_vars

\* ------------------------------------------------------------------------
\* runTests over the URLs of the CSV file.
\*   variant  "compact": CompactDropdownTester (part_000, dropdown-validator5.js):
\*            driver started and quit per URL, cleanup swallows quit errors;
\*            "complete": CompleteDropdownTester (dropdown-validator3.js):
\*            one driver for the run, cleanup is executeWithRetry('cleanup', 2)
\* What happens inside one URL is summarised by the stage that raised after
\* its retries, or by the status derived from the combinations.
\*   session  the browser session this.driver refers to (0: none); sessions
\*            are numbered in the order they are built
\*   madeFor  for each session built, the URL in whose turn it was built
\*            (0: before the loop)
\*   open     the sessions built and not shut down
\* A URL result carries the session its URL was loaded in (0: none).
\*   setupFailed, logged  readCSV or the driver start before the loop raised;
\*            the catch of runTests wrote the error to a log
\*   timers   the interval timers of the constructor that are still set
\*   late     liveness checks that ran a recovery after runTests had ended
\*   overall  the overall status generateReports derived ("": none yet)
\* A URL result carries the statuses of its combinations and its summary.
\*   exit     how the process ended: "1", "0", or "running" while timers
\*            keep the event loop alive ("none": runTests has not settled)
\* ------------------------------------------------------------------------
SuiteVariants == {"compact", "complete"}

UrlStages(variant) ==
  IF variant = "compact"
  THEN {"initializeDriver", "navigation", "dropdownFinding", "dropdownOptions",
        "testAllCombinations"}
  ELSE {"navigation", "dropdownFinding", "dropdownOptions", "testAllCombinations"}

UrlStatuses == {"PASSED", "FAILED", "SKIPPED"}

\* the statuses testSingleCombination gives a combination
ComboStatuses == {"PASSED", "FAILED"}

\* the status lists of the combinations testAllCombinations may return: at
\* least one combination, since it raises without dropdowns or options
ComboLists == UNION {[1..n -> ComboStatuses] : n \in 1..MaxCombos}

\* urlResult.summary = { passed, failed, total: combos.length, ... }
UrlSummary(combos) ==
  [passed |-> CountIf(combos, LAMBDA c : c \in {"PASSED", "PARTIAL"}),
   failed |-> CountIf(combos, LAMBDA c : c = "FAILED"),
   total |-> Len(combos)]

\* urlResult.status = failed > 0 ? 'FAILED' : passed > 0 ? 'PASSED' : 'SKIPPED'
UrlStatus(combos) ==
  IF UrlSummary(combos).failed > 0 THEN "FAILED"
  ELSE IF UrlSummary(combos).passed > 0 THEN "PASSED" ELSE "SKIPPED"

\* an overall status that is SKIPPED only when some URL was skipped
OverallStatusSomeSkipped(res) ==
  IF \E k \in 1..Len(res) : res[k].status = "ERROR" THEN "ERROR"
  ELSE IF \E k \in 1..Len(res) : res[k].status = "FAILED" THEN "FAILED"
  ELSE IF \E k \in 1..Len(res) : res[k].status = "SKIPPED" THEN "SKIPPED"
  ELSE "PASSED"

\* generateReports: overallStatus from this.results
OverallStatus(res) ==
  IF \E k \in 1..Len(res) : res[k].status = "ERROR" THEN "ERROR"
  ELSE IF \E k \in 1..Len(res) : res[k].status = "FAILED" THEN "FAILED"
  ELSE IF \A k \in 1..Len(res) : res[k].status = "SKIPPED" THEN "SKIPPED"
  ELSE "PASSED"

UrlCatchKeepsPending(stage, status) ==
  IF stage # "none"
  THEN [status |-> "PENDING", error |-> ""]
  ELSE [status |-> status, error |-> ""]

\* try { ... urlResult.status = ... } catch (error) { urlResult.status =
\* 'ERROR'; urlResult.error = error.message }
UrlCatch(stage, status) ==
  IF stage # "none"
  THEN [status |-> "ERROR", error |-> stage]
  ELSE [status |-> status, error |-> ""]

\* startMonitoring(): two setInterval calls in the compact constructor; the
\* complete variant sets no timer
StartedTimers(variant) ==
  IF variant = "compact" THEN {"flush", "liveness"} ELSE {}

SuiteState(v, n) ==
  [pc |-> "url", variant |-> v, loaded |-> n, idx |-> 1, results |-> <<>>,
   pending |-> <<>>, reports |-> 0, driver |-> FALSE, rejected |-> FALSE,
   session |-> 0, madeFor |-> <<>>, open |-> {},
   setupFailed |-> FALSE, logged |-> FALSE, timers |-> StartedTimers(v),
   late |-> 0, exit |-> "none", overall |-> ""]

SuiteInit ==
  /\ RetryInit
  /\ suite = SuiteIdle

\* readCSV; the complete variant then starts its driver.  loaded = 0: the
\* file stream raised (an empty file yields one default URL)
ReadCSV ==
  /\ suite.pc = "idle"
  /\ \E v \in SuiteVariants, n \in 0..MaxUrls, driverOk \in BOOLEAN :
       /\ (v = "compact" \/ n = 0) => driverOk
       /\ suite' = IF n = 0 \/ ~driverOk
                   THEN [SuiteState(v, n) EXCEPT !.pc = "finally", !.setupFailed = TRUE,
                                                 !.logged = TRUE]
                   ELSE IF v = "complete"
                   THEN [SuiteState(v, n) EXCEPT !.driver = TRUE, !.session = 1,
                                                 !.madeFor = << 0 >>, !.open = {1}]
                   ELSE SuiteState(v, n)
  /\ UNCHANGED << runVars, retryCounts, retry, monitor, sorting, logging >>

\* the try block of one turn of the URL loop, up to catch
TestUrl ==
  /\ suite.pc = "url"
  /\ \E stage \in {"none"} \cup UrlStages(suite.variant),
        combos \in ComboLists \cup {<< >>}, status \in UrlStatuses :
       /\ (stage # "none") <=> (combos = << >>)
       /\ status = UrlStatus(combos)
       /\ LET builds == suite.variant = "compact" /\ stage # "initializeDriver"
               s == IF builds THEN Len(suite.madeFor) + 1 ELSE suite.session
           IN  suite' = [suite EXCEPT
                 !.pc = "urlFinally",
                 !.driver = IF suite.variant = "compact"
                            THEN (stage # "initializeDriver" \/ @) ELSE @,
                 !.session = s,
                 !.madeFor = IF builds THEN Append(@, suite.idx) ELSE @,
                 !.open = IF builds THEN @ \cup {s} ELSE @,
                 !.pending = << [url |-> suite.idx, stage |-> stage,
                                 status |-> UrlCatch(stage, status).status,
                                 error |-> UrlCatch(stage, status).error,
                                 combos |-> combos,
                                 summary |-> UrlSummary(combos),
                                 session |-> IF stage = "initializeDriver" THEN 0 ELSE s] >>]
  /\ UNCHANGED << runVars, retryCounts, retry, monitor, sorting, logging >>

\* finally of the URL (compact: cleanup, quit errors swallowed), push of the
\* URL result, next URL
RecordUrl ==
  /\ suite.pc = "urlFinally"
  /\ \E quitRaises \in BOOLEAN :
       /\ quitRaises => (suite.variant = "compact" /\ suite.driver)
       /\ suite' = [suite EXCEPT
            !.driver = IF suite.variant = "compact" THEN (@ /\ quitRaises) ELSE @,
            !.session = IF suite.variant = "compact" /\ ~quitRaises THEN 0 ELSE @,
            !.open = IF suite.variant = "compact" /\ ~quitRaises
                     THEN @ \ {suite.session} ELSE @,
            !.results = Append(@, suite.pending[1]),
            !.pending = <<>>,
            !.idx = IF suite.idx < suite.loaded THEN @ + 1 ELSE @,
            !.pc = IF suite.idx < suite.loaded THEN "url" ELSE "finally"]
  /\ UNCHANGED << runVars, retryCounts, retry, monitor, sorting, logging >>

\* cleanup of the complete variant raises when driver.quit() fails on both
\* attempts
CleanupRaises(variant, driver, quitFails) ==
  variant = "complete" /\ driver /\ quitFails >= CleanupRetries

\* finally of runTests: compact finalizeExecution -> generateReports;
\* complete: await cleanup(); await generateReports(...)
Finalize ==
  /\ suite.pc = "finally"
  /\ \E quitFails \in 0..CleanupRetries :
       /\ quitFails > 0 => suite.driver
       /\ suite' = IF CleanupRaises(suite.variant, suite.driver, quitFails)
                   THEN [suite EXCEPT !.pc = "ended", !.rejected = TRUE]
                   ELSE [suite EXCEPT !.pc = "ended", !.reports = @ + 1,
                                      !.overall = OverallStatus(suite.results),
                                      !.driver = FALSE,
                                      !.open = IF quitFails = 0 THEN @ \ {suite.session} ELSE @,
                                      !.session = IF suite.variant = "compact" /\ quitFails = 0
                                                  THEN 0 ELSE @]
  /\ UNCHANGED << runVars, retryCounts, retry, monitor, sorting, logging >>

\* the exit status main() would pass to process.exit: the complete
\* variant's main() catches a rejected runTests and calls process.exit(1);
\* the compact variant's caller only prints it
ExitStatus(variant, rejected) ==
  IF variant = "complete" /\ rejected THEN "1" ELSE "0"

\* the caller of runTests once its promise has settled; neither runTests nor
\* its caller clears a timer, and a set timer keeps the process running
ProcessEnd ==
  /\ suite.pc = "ended"
  /\ suite' = [suite EXCEPT
        !.pc = "exited",
        !.exit = IF ExitStatus(suite.variant, suite.rejected) = "0" /\ suite.timers # {}
                 THEN "running"
                 ELSE ExitStatus(suite.variant, suite.rejected)]
  /\ UNCHANGED << runVars, retryCounts, retry, monitor, sorting, logging >>

\* a liveness check that fires after runTests has ended: nothing touches
\* lastActivityTime any more, so it finds the run stuck and starts a recovery
LateCheck ==
  /\ suite.pc \in {"ended", "exited"}
  /\ suite.exit \in {"none", "running"}
  /\ "liveness" \in suite.timers
  /\ suite.late < MaxRecoveries
  /\ suite' = [suite EXCEPT !.late = @ + 1]
  /\ UNCHANGED << runVars, retryCounts, retry, monitor, sorting, logging >>

NextRun ==
  \/ ReadCSV
  \/ TestUrl
  \/ RecordUrl
  \/ Finalize
  \/ ProcessEnd
  \/ LateCheck

SpecRun == SuiteInit /\ [][NextRun]_vars

\* ------------------------------------------------------------------------
\* getDropdownElements: executeWithRetry('dropdownFinding', finder,
\* maxRetries.dropdownFinding) (SpecDiscover).  What an attempt meets:
\*   container  .nw-container is located within the wait
\*   found[i]   number of elements selector i matches
\*   raises     selectors whose findElements raises
\* ------------------------------------------------------------------------
Strategies ==
  << "bolt-select", ".main-filter bolt-select", "select[data-test=select]", "select" >>

DiscoverPages ==
  [container : BOOLEAN,
   found : [1..Len(Strategies) -> 0..MaxFound],
   raises : SUBSET (1..Len(Strategies))]

\* the elements a selector matches, in document order
Matches(n) == [k \in 1..n |-> k]

\* els.slice(0, n)
Slice(s, n) == SubSeq(s, 1, IF Len(s) < n THEN Len(s) ELSE n)

NoDropdowns == [ok |-> FALSE, strategy |-> 0, elements |-> << >>]

\* one run of the finder: the container wait, then the selectors in order
FindDropdowns(page) ==
  LET hit == {i \in 1..Len(Strategies) : i \notin page.raises /\ page.found[i] >= 1}
  IN  IF ~page.container \/ hit = {}
      THEN NoDropdowns
      ELSE LET i == CHOOSE i \in hit : \A j \in hit : i <= j
           IN  [ok |-> TRUE, strategy |-> i,
                elements |-> Slice(Matches(page.found[i]), MaxDropdowns)]

\* a caller invokes getDropdownElements()
DiscoverCall ==
  /\ retry.pc = "idle"
  /\ \E v \in RetryVariants :
       retry' = [pc |-> "attempt", variant |-> v, op |-> "dropdownFinding",
                 max |-> MaxRetriesDropdownFinding, plan |-> 0,
                 attempt |-> 1, calls |-> 0, recovered |-> 0, err |-> NoRetryErr,
                 nth |-> 1, delay |-> 0, waited |-> 0, action |-> "",
                 currentOperation |-> IF MarksProgress(v) THEN "dropdownFinding" ELSE "null",
                 stamp |-> IF MarksProgress(v) THEN 1 ELSE 0,
                 page |-> << >>, found |-> NoDropdowns]
  /\ UNCHANGED << runVars, retryCounts, suite, monitor, sorting, logging >>

\* one turn of the loop: the finder returns its elements or raises
DiscoverAttempt ==
  /\ retry.pc = "attempt"
  /\ \E page \in DiscoverPages :
       LET r == FindDropdowns(page)
           c == retryCounts[retry.op]
       IN  IF r.ok
           THEN /\ retryCounts' = [retryCounts EXCEPT ![retry.op] =
                                      CountAfterSuccess(retry.variant, c)]
                /\ retry' = [retry EXCEPT !.pc = "returned", !.calls = @ + 1,
                                          !.page = page, !.found = r]
           ELSE /\ retryCounts' = [retryCounts EXCEPT ![retry.op] =
                                      CountAfterFailure(retry.variant, c)]
                /\ retry' = [retry EXCEPT
                               !.calls = @ + 1,
                               !.pc = IF retry.attempt < retry.max THEN "backoff" ELSE "thrown",
                               !.err = IF retry.attempt < retry.max THEN NoRetryErr
                                       ELSE RetryErr("exhausted", retry.op,
                                                     IF retry.variant = "v3"
                                                       THEN retry.attempt ELSE 0)]
  /\ UNCHANGED << runVars, suite, monitor, sorting, logging >>

NextDiscover ==
  \/ DiscoverCall
  \/ DiscoverAttempt
  \/ RetryBackoff
  \/ RetryRecover

SpecDiscover == RetryInit /\ [][NextDiscover]_vars

\* ------------------------------------------------------------------------
\* selectDropdownOption, step by step (SpecSelect):
\* executeWithRetry('selection', body, maxRetries.selection), where the body
\* runs the set script, waits 800 ms and re-reads the control.
\*   target    option.value
\*   control   the value the page's <select> holds
\*   didSet    the last attempt ran `select.value = val`
\*   seen      select.value at the last re-read ("none": no re-read made)
\* What an attempt meets (env):
\*   hasSelect  the element holds a <select>
\*   options    the values of the <select>'s options
\*   raises     the driver call that raises ("none", "set", "reread")
\*   settle     the value the page's handlers leave in the control during
\*              the wait ("keep": they leave it alone)
\*   second     the same for the wait before validator3's second re-read
\* ------------------------------------------------------------------------
ControlValues == {"", "a", "b"}

PageWrites == ControlValues \cup {"keep"}

SelectEnvs ==
  [hasSelect : BOOLEAN, options : SUBSET ControlValues,
   raises : {"none", "set", "reread"}, settle : PageWrites, second : PageWrites]

\* select.value = val: the option with that value becomes the selected one;
\* when no option has it nothing is selected and the value reads ""
AssignValue(options, val) == IF val \in options THEN val ELSE ""

PageWrite(control, w) == IF w = "keep" THEN control ELSE w

VerifiedAlways(seen, val) == TRUE

\* return select ? select.value === val : false
Verified(seen, val) == seen = val

\* re-reads one attempt may make
\*   v5: one executeScript;  v3: verifySelection = executeWithRetry('verification', ..., 2)
Rereads(variant) == IF variant = "v3" THEN 2 ELSE 1

\* the body of one attempt
SelectBody(variant, env, control, val) ==
  IF env.raises = "set" \/ ~env.hasSelect
  THEN [ok |-> FALSE, didSet |-> FALSE, control |-> control, seen |-> "none"]
  ELSE LET c1 == PageWrite(AssignValue(env.options, val), env.settle)
           c2 == PageWrite(c1, env.second)
       IN  IF env.raises = "reread"
           THEN [ok |-> FALSE, didSet |-> TRUE, control |-> c1, seen |-> "none"]
           ELSE IF Verified(c1, val)
           THEN [ok |-> TRUE, didSet |-> TRUE, control |-> c1, seen |-> c1]
           ELSE IF Rereads(variant) = 1
           THEN [ok |-> FALSE, didSet |-> TRUE, control |-> c1, seen |-> c1]
           ELSE [ok |-> Verified(c2, val), didSet |-> TRUE, control |-> c2, seen |-> c2]

\* a caller invokes selectDropdownOption(dropdownElement, option, dropdownIndex)
SelectCall ==
  /\ retry.pc = "idle"
  /\ \E v \in RetryVariants, val \in ControlValues, held \in ControlValues :
       retry' = [pc |-> "attempt", variant |-> v, op |-> "selection",
                 max |-> MaxRetriesSelection, plan |-> 0,
                 attempt |-> 1, calls |-> 0, recovered |-> 0, err |-> NoRetryErr,
                 nth |-> 1, delay |-> 0, waited |-> 0, action |-> "",
                 currentOperation |-> IF MarksProgress(v) THEN "selection" ELSE "null",
                 stamp |-> IF MarksProgress(v) THEN 1 ELSE 0,
                 target |-> val, control |-> held, didSet |-> FALSE, seen |-> "none"]
  /\ UNCHANGED << runVars, retryCounts, suite, monitor, sorting, logging >>

\* one turn of the loop: the body returns true or raises
SelectAttempt ==
  /\ retry.pc = "attempt"
  /\ \E env \in SelectEnvs :
       LET r == SelectBody(retry.variant, env, retry.control, retry.target)
           c == retryCounts[retry.op]
       IN  IF r.ok
           THEN /\ retryCounts' = [retryCounts EXCEPT ![retry.op] =
                                      CountAfterSuccess(retry.variant, c)]
                /\ retry' = [retry EXCEPT !.pc = "returned", !.calls = @ + 1,
                                          !.control = r.control, !.didSet = r.didSet,
                                          !.seen = r.seen]
           ELSE /\ retryCounts' = [retryCounts EXCEPT ![retry.op] =
                                      CountAfterFailure(retry.variant, c)]
                /\ retry' = [retry EXCEPT
                               !.calls = @ + 1,
                               !.control = r.control, !.didSet = r.didSet,
                               !.seen = r.seen,
                               !.pc = IF retry.attempt < retry.max THEN "backoff" ELSE "thrown",
                               !.err = IF retry.attempt < retry.max THEN NoRetryErr
                                       ELSE RetryErr("exhausted", retry.op,
                                                     IF retry.variant = "v3"
                                                       THEN retry.attempt ELSE 0)]
  /\ UNCHANGED << runVars, suite, monitor, sorting, logging >>

NextSelect ==
  \/ SelectCall
  \/ SelectAttempt
  \/ RetryBackoff
  \/ RetryRecover

SpecSelect == RetryInit /\ [][NextSelect]_vars

\* ------------------------------------------------------------------------
\* The validation log (SpecBuffer): captureValidation pushes an entry on
\* this.validationBuffer; flushValidationBuffer appends the buffered entries
\* to the log file and empties the buffer.  Both are synchronous, so calls
\* from the main flow, from the 5-second timer and from the monitor follow
\* one another without overlapping.  Entries are numbered in capture order.
\*   validationBuffer  the entries buffered
\*   written           the entries in the log file, in file order
\*   captured          entries captured so far
\*   activity          calls of updateActivity() so far
\*   failures          appendFileSync calls that have raised
\*   last, pre         the operation run last, and buffer and file as the
\*                     last flush found them
\* ------------------------------------------------------------------------
NoFlushYet == [validationBuffer |-> << >>, written |-> << >>]

\* a flush that empties the buffer whether or not the write went through
FlushDropsOnFailure(lg, writeOk) ==
  IF lg.validationBuffer = << >> THEN lg
  ELSE IF writeOk
  THEN [lg EXCEPT !.written = @ \o lg.validationBuffer, !.validationBuffer = << >>,
                  !.activity = @ + 1]
  ELSE [lg EXCEPT !.validationBuffer = << >>, !.failures = @ + 1]

\* flushValidationBuffer(): nothing on an empty buffer; else appendFileSync,
\* and only after it returned `this.validationBuffer = []; updateActivity()`
FlushValidationBuffer(lg, writeOk) ==
  IF lg.validationBuffer = << >> THEN lg
  ELSE IF writeOk
  THEN [lg EXCEPT !.written = @ \o lg.validationBuffer, !.validationBuffer = << >>,
                  !.activity = @ + 1]
  ELSE [lg EXCEPT !.failures = @ + 1]

\* a capture that flushes on request only
CaptureEntryNoThreshold(lg, immediate, writeOk) ==
  LET pushed == [lg EXCEPT !.captured = @ + 1,
                           !.validationBuffer = Append(@, lg.captured + 1)]
      flushed == IF immediate THEN FlushValidationBuffer(pushed, writeOk) ELSE pushed
  IN  [flushed EXCEPT !.activity = @ + 1]

\* captureValidation(msg, data, immediate)
CaptureEntry(lg, immediate, writeOk) ==
  LET pushed == [lg EXCEPT !.captured = @ + 1,
                           !.validationBuffer = Append(@, lg.captured + 1)]
      flushed == IF immediate \/ Len(pushed.validationBuffer) >= FlushThreshold
                 THEN FlushValidationBuffer(pushed, writeOk)
                 ELSE pushed
  IN  [flushed EXCEPT !.activity = @ + 1]

\* the constructor: this.validationBuffer = [], startMonitoring()
StartLogging ==
  /\ logging.pc = "off"
  /\ logging' = [pc |-> "on", validationBuffer |-> << >>, written |-> << >>,
                 captured |-> 0, activity |-> 0, failures |-> 0,
                 last |-> "none", pre |-> NoFlushYet]
  /\ UNCHANGED << runVars, retryCounts, retry, suite, monitor, sorting >>

\* some caller runs captureValidation
Capture ==
  /\ logging.pc = "on"
  /\ logging.captured < MaxCaptures
  /\ \E immediate \in BOOLEAN, writeOk \in BOOLEAN :
       /\ ~writeOk => logging.failures < MaxWriteFailures
       /\ logging' = [CaptureEntry(logging, immediate, writeOk)
                     EXCEPT !.last = "capture", !.pre = NoFlushYet]
  /\ UNCHANGED << runVars, retryCounts, retry, suite, monitor, sorting >>

FlushStep(lg, writeOk) ==
  [FlushValidationBuffer(lg, writeOk)
     EXCEPT !.last = "flush",
            !.pre = [validationBuffer |-> lg.validationBuffer, written |-> lg.written]]

\* flushValidationBuffer() runs: called by the 5-second timer
\* (setInterval(() => this.flushValidationBuffer(), 5000)) or by hardRestart
\* or finalizeExecution
Flush ==
  /\ logging.pc = "on"
  /\ \E writeOk \in BOOLEAN :
       /\ ~writeOk => logging.failures < MaxWriteFailures
       /\ logging' = FlushStep(logging, writeOk)
  /\ UNCHANGED << runVars, retryCounts, retry, suite, monitor, sorting >>

NextBuffer ==
  \/ StartLogging
  \/ Capture
  \/ Flush

SpecBuffer == RetryInit /\ [][NextBuffer]_vars

\* ------------------------------------------------------------------------
\* The liveness monitor: setInterval(checkForStuckState, 10000) next to the
\* main flow, and the executions of recoverFromStuckState it starts.  Every
\* await of a recovery is a point where ticks and the main flow may run.
\* Times are in seconds.
\*   mainCall   "pending" while a browser call of the main flow is awaited
\*   stale      the session was quit while that call was pending
\*   buffered   validationBuffer holds entries not yet written
\*   driverRef  this.driver references a session object
\*   driverQuit that session has been terminated by hardRestart
\* ------------------------------------------------------------------------
\* operation names, split where a capital letter starts a new word
NameParts(op) ==
  CASE op = "navigation" -> << "navigation" >>
    [] op = "dropdownFinding" -> << "dropdown", "Finding" >>
    [] op = "dropdownOptions" -> << "dropdown", "Options" >>
    [] op = "selection" -> << "selection" >>
    [] op = "tileValidation" -> << "tile", "Validation" >>
    [] OTHER -> << >>

\* this.currentOperation: null or the name given to executeWithRetry
CurrentOperations ==
  {"null", "navigation", "dropdownFinding", "dropdownOptions", "selection",
   "tileValidation"}

\* this.currentOperation?.includes(word)
Includes(op, word) == \E k \in 1..Len(NameParts(op)) : NameParts(op)[k] = word

\* the driver call of a soft recovery
RecoveryAction(op) ==
  IF Includes(op, "navigation") THEN "refresh"
  ELSE IF Includes(op, "dropdown") THEN "scroll"
  ELSE "wait"

\* checkForStuckState: idleTime > this.activityTimeout && !this.isRecovering
StuckDetected(now, lastActivityTime, isRecovering) ==
  now - lastActivityTime > ActivityTimeout /\ ~isRecovering

MayRecoverAlways(isRecovering) == TRUE

\* recoverFromStuckState: if (this.isRecovering) return
MayRecover(isRecovering) == ~isRecovering

IsRecoveringAfterFailure(failed) == failed

\* finally { this.isRecovering = false; ... }
IsRecoveringAfter(failed) == FALSE

Recovery(action) ==
  [pc |-> IF action = "wait" THEN "delay" ELSE "driver", action |-> action,
   failed |-> FALSE]

MonitorInit ==
  /\ RetryInit
  /\ monitor = MonitorIdle

\* constructor / startMonitoring
StartMonitoring ==
  /\ monitor.pc = "off"
  /\ monitor' = [pc |-> "on", now |-> 0, lastActivityTime |-> 0,
                 isRecovering |-> FALSE, currentOperation |-> "null",
                 recs |-> << >>, ignored |-> 0, ended |-> "none",
                 driverQuit |-> FALSE, driverRef |-> TRUE, mainCall |-> "none",
                 calls |-> 0, stale |-> FALSE, buffered |-> FALSE]
  /\ UNCHANGED << runVars, retryCounts, retry, suite, sorting, logging >>

\* the main flow enters executeWithRetry: currentOperation = opName,
\* updateActivity()
MainActivity ==
  /\ monitor.pc = "on"
  /\ monitor.mainCall = "none"
  /\ \E op \in CurrentOperations \ {"null"} :
       monitor' = [monitor EXCEPT !.currentOperation = op,
                                  !.lastActivityTime = monitor.now]
  /\ UNCHANGED << runVars, retryCounts, retry, suite, sorting, logging >>

\* captureValidation(msg, data, false) of the main flow: the entry is
\* buffered, the progress timestamp refreshed
CaptureValidation ==
  /\ monitor.pc = "on"
  /\ monitor.mainCall = "none"
  /\ ~monitor.buffered
  /\ monitor' = [monitor EXCEPT !.buffered = TRUE, !.lastActivityTime = monitor.now]
  /\ UNCHANGED << runVars, retryCounts, retry, suite, sorting, logging >>

\* the combination every dropdown's first option makes
FirstSelection == [d \in 1..Len(cfg) |-> ExtractOptions(cfg[d])[1]]

\* testSingleCombination awaits a driver call (re-reading a dropdown)
MainCallStart ==
  /\ monitor.pc = "on"
  /\ monitor.mainCall = "none"
  /\ monitor.calls < MaxCalls
  /\ monitor' = [monitor EXCEPT !.mainCall = "pending", !.calls = @ + 1,
                                 !.stale = FALSE]
  /\ UNCHANGED << runVars, retryCounts, retry, suite, sorting, logging >>

\* the awaited call settles; a call on a terminated session raises.  The
\* catch of testSingleCombination records a FAILED result for any error
\* and logs it at once
MainCallReturn ==
  /\ monitor.pc = "on"
  /\ monitor.mainCall = "pending"
  /\ \E raises \in BOOLEAN :
       /\ monitor.driverQuit => raises
       /\ IF raises
          THEN /\ results' = Append(results,
                                FailedLeaf(FirstSelection, Len(results) + 1, 0,
                                           DriverError, retryCounts, {}).result)
               /\ totalTests' = totalTests + 1
               /\ failedTests' = failedTests + 1
               /\ monitor' = [monitor EXCEPT !.mainCall = "none", !.buffered = FALSE,
                                             !.lastActivityTime = monitor.now]
          ELSE /\ UNCHANGED << results, totalTests, failedTests >>
               /\ monitor' = [monitor EXCEPT !.mainCall = "none"]
  /\ UNCHANGED << cfg, profile, pageVal, phase, attempt, optionsArray, stack,
                  passedTests, faults, resetLog, probeLog, selFailed, urlResult,
                  retryCounts, retry, suite, sorting, logging >>

\* recoverFromStuckState from its call to its first await; captureValidation
\* ('Attempting stuck recovery') refreshes the progress timestamp
BeginRecovery(m) ==
  IF MayRecover(m.isRecovering)
  THEN /\ retryCounts["stuckRecovery"] < MaxRecoveries
       /\ retryCounts' = [retryCounts EXCEPT !["stuckRecovery"] = OrZero(@) + 1]
       /\ monitor' = [m EXCEPT !.isRecovering = TRUE,
                               !.lastActivityTime = m.now,
                               !.buffered = FALSE,
                               !.recs = Append(@, Recovery(RecoveryAction(m.currentOperation)))]
  ELSE /\ retryCounts' = retryCounts
       /\ monitor' = [m EXCEPT !.ignored = 1]

\* half a period passes: the flush interval fires (a flush of a non-empty
\* buffer refreshes the progress timestamp); at every full period the
\* second interval fires checkForStuckState
Tick ==
  /\ monitor.pc = "on"
  /\ monitor.now < MaxTicks * TickPeriod
  /\ LET t == monitor.now + TickPeriod \div 2
         m == [monitor EXCEPT !.now = t,
                              !.buffered = FALSE,
                              !.lastActivityTime = IF monitor.buffered THEN t ELSE @]
     IN  IF m.now % TickPeriod # 0
         THEN /\ retryCounts' = retryCounts
              /\ monitor' = m
         ELSE IF StuckDetected(m.now, m.lastActivityTime, m.isRecovering)
         THEN BeginRecovery(m)
         ELSE /\ retryCounts' = retryCounts
              /\ monitor' = IF m.now - m.lastActivityTime > ActivityTimeout
                            THEN [m EXCEPT !.ignored = 1] ELSE m
  /\ UNCHANGED << runVars, retry, suite, sorting, logging >>

\* a caller invokes recoverFromStuckState()
RecoverRequest ==
  /\ monitor.pc = "on"
  /\ BeginRecovery(monitor)
  /\ UNCHANGED << runVars, retry, suite, sorting, logging >>

\* await driver.navigate().refresh() / executeScript(scrollTo) returns or raises
RecoveryDriver ==
  /\ monitor.pc = "on"
  /\ \E k \in 1..Len(monitor.recs), raises \in BOOLEAN :
       /\ monitor.recs[k].pc = "driver"
       /\ monitor' = [monitor EXCEPT !.recs[k].pc = IF raises THEN "catch" ELSE "delay",
                                     !.recs[k].failed = raises]
  /\ UNCHANGED << runVars, retryCounts, retry, suite, sorting, logging >>

\* await this.delay(2000)
RecoveryDelay ==
  /\ monitor.pc = "on"
  /\ \E k \in 1..Len(monitor.recs) :
       /\ monitor.recs[k].pc = "delay"
       /\ monitor' = [monitor EXCEPT !.recs[k].pc = "finally"]
  /\ UNCHANGED << runVars, retryCounts, retry, suite, sorting, logging >>

\* catch: 'Recovery failed' is logged; hardRestart once the stuckRecovery
\* counter has reached its maximum, up to its await of driver.quit()
RecoveryCatch ==
  /\ monitor.pc = "on"
  /\ \E k \in 1..Len(monitor.recs) :
       /\ monitor.recs[k].pc = "catch"
       /\ monitor' = [monitor EXCEPT
            !.recs[k].pc = IF retryCounts["stuckRecovery"] >= MaxRetriesStuckRecovery
                           THEN "quit" ELSE "finally",
            !.buffered = FALSE,
            !.lastActivityTime = monitor.now]
  /\ UNCHANGED << runVars, retryCounts, retry, suite, sorting, logging >>

\* hardRestart: driver.quit() settles (an error is dropped), 'Restart
\* complete' is logged; this.driver is left as it is
HardRestart ==
  /\ monitor.pc = "on"
  /\ \E k \in 1..Len(monitor.recs) :
       /\ monitor.recs[k].pc = "quit"
       /\ monitor' = [monitor EXCEPT
            !.recs[k].pc = "finally",
            !.driverQuit = TRUE,
            !.stale = @ \/ monitor.mainCall = "pending",
            !.buffered = FALSE,
            !.lastActivityTime = monitor.now]
  /\ UNCHANGED << runVars, retryCounts, retry, suite, sorting, logging >>

\* finally: isRecovering = false, updateActivity(); the execution ends
RecoveryFinally ==
  /\ monitor.pc = "on"
  /\ \E k \in 1..Len(monitor.recs) :
       /\ monitor.recs[k].pc = "finally"
       /\ monitor' = [monitor EXCEPT
            !.recs = SubSeq(@, 1, k - 1) \o SubSeq(@, k + 1, Len(@)),
            !.isRecovering = IsRecoveringAfter(monitor.recs[k].failed),
            !.lastActivityTime = monitor.now,
            !.ended = IF monitor.recs[k].failed THEN "failed" ELSE "ok"]
  /\ UNCHANGED << runVars, retryCounts, retry, suite, sorting, logging >>

NextMonitor ==
  \/ StartMonitoring
  \/ MainActivity
  \/ Tick
  \/ RecoverRequest
  \/ RecoveryDriver
  \/ RecoveryDelay
  \/ RecoveryCatch
  \/ HardRestart
  \/ RecoveryFinally

SpecMonitor == MonitorInit /\ [][NextMonitor]_vars

\* ------------------------------------------------------------------------
\* The monitor next to the browser calls of the main flow (SpecSession):
\* the same recoveries, the main flow awaiting driver calls, and the clock
\* moving in waits long enough for the stuck check to fire.
\* ------------------------------------------------------------------------
\* the shortest run of full periods longer than the activity timeout
StuckWait == TickPeriod * (ActivityTimeout \div TickPeriod + 1)

\* nothing settles for StuckWait seconds: the buffer is flushed at the first
\* half period, checkForStuckState runs at the end
LongWait ==
  /\ monitor.pc = "on"
  /\ monitor.now < MaxTicks * TickPeriod
  /\ LET m == [monitor EXCEPT
                 !.now = @ + StuckWait,
                 !.buffered = FALSE,
                 !.lastActivityTime = IF monitor.buffered
                                      THEN monitor.now + TickPeriod \div 2 ELSE @]
     IN  IF StuckDetected(m.now, m.lastActivityTime, m.isRecovering)
         THEN BeginRecovery(m)
         ELSE /\ retryCounts' = retryCounts
              /\ monitor' = IF m.now - m.lastActivityTime > ActivityTimeout
                            THEN [m EXCEPT !.ignored = 1] ELSE m
  /\ UNCHANGED << runVars, retry, suite, sorting, logging >>

NextSession ==
  \/ StartMonitoring
  \/ MainActivity
  \/ CaptureValidation
  \/ MainCallStart
  \/ MainCallReturn
  \/ LongWait
  \/ RecoveryDriver
  \/ RecoveryDelay
  \/ RecoveryCatch
  \/ HardRestart
  \/ RecoveryFinally

SpecSession == MonitorInit /\ [][NextSession]_vars

\* ========================================================================
\* The sort script of validateSortByForVisibleTiles on one page (SpecSort)
\* ========================================================================
\* texts a <bolt-tile> may carry: none, a letter, or words around a "|"
TitlePool == {<<>>, <<"a">>, <<"b">>, <<"a", "|", "a">>, <<"a", "|", "b">>}

RECURSIVE TitleSeqs(_)
TitleSeqs(n) ==
  IF n = 0 THEN {<<>>}
  ELSE TitleSeqs(n - 1) \cup
       {Append(t, x) : t \in {u \in TitleSeqs(n - 1) : Len(u) = n - 1}, x \in TitlePool}

SortInit ==
  /\ cfg = ScenarioConfig
  /\ profile = 0
  /\ pageVal = [d \in 1..Len(cfg) |-> LoadedValue(cfg[d])]
  /\ phase = "setup"
  /\ attempt = 1
  /\ optionsArray = <<>>
  /\ stack = <<>>
  /\ results = <<>>
  /\ totalTests = 0 /\ passedTests = 0 /\ failedTests = 0
  /\ faults = 0
  /\ resetLog = NoReset
  /\ probeLog = {}
  /\ selFailed = FALSE
  /\ urlResult = PendingUrlResult
  /\ retryCounts = InitRetryCounts
  /\ retry = RetryIdle
  /\ suite = SuiteIdle
  /\ monitor = MonitorIdle
  /\ sorting \in {[pc |-> "page", raw |-> raw, titles |-> <<>>,
                   status |-> "", currentSortStatus |-> ""] : raw \in TitleSeqs(MaxTitles)}
  /\ logging = LogIdle

\* tiles.map(title of the tile).filter(title => title.length > 0)
ExtractTitles ==
  /\ sorting.pc = "page"
  /\ sorting' = [sorting EXCEPT !.pc = "titles", !.titles = TileTitles(sorting.raw)]
  /\ UNCHANGED << runVars, retryCounts, retry, suite, monitor, logging >>

\* fewer than 2 titles: NOT_APPLICABLE; else the order is classified
ClassifyOrder ==
  /\ sorting.pc = "titles"
  /\ sorting' = IF Len(sorting.titles) < MinTilesForSort
                THEN [sorting EXCEPT !.pc = "done", !.status = "NOT_APPLICABLE"]
                ELSE [sorting EXCEPT !.pc = "done", !.status = "VALIDATED",
                                     !.currentSortStatus = CurrentSortStatus(sorting.titles)]
  /\ UNCHANGED << runVars, retryCounts, retry, suite, monitor, logging >>

NextSort == ExtractTitles \/ ClassifyOrder

SpecSort == SortInit /\ [][NextSort]_vars

\* ========================================================================
\* Properties
\* ========================================================================
\* the selection a result carries: the values of its options entries
RecordedSelection(r) == [i \in 1..Len(r.options) |-> r.options[i].value]

OptionValues(opts) == {opts[k].value : k \in 1..Len(opts)}

\* the Cartesian product of the per-dropdown option sets, as value tuples
CartesianValues ==
  LET all == UNION {OptionValues(optionsArray[d]) : d \in 1..Len(optionsArray)}
  IN  {s \in [1..Len(optionsArray) -> all] :
         \A d \in 1..Len(optionsArray) : s[d] \in OptionValues(optionsArray[d])}

\* the default of dropdown j read off the page: the enabled option with
\* empty value if there is one, else the first enabled option
ExpectedDefault(j) ==
  LET en == SelectSeq(cfg[j], LAMBDA o : ~o.disabled)
  IN  IF \E k \in 1..Len(en) : en[k].value = "" THEN "" ELSE en[1].value

\* first dropdown whose value on the page differs from the selection, 0 if none
FirstMismatch(sel, page) ==
  LET bad == {i \in 1..Len(sel) : page[i] # sel[i].value}
  IN  IF bad = {} THEN 0 ELSE CHOOSE i \in bad : \A j \in bad : i <= j

TechnicalKinds == {"verificationFailed", "driver", "exhausted", "failedToSelect"}

\* what the page showed for the combination a result belongs to
ShownFor(r) == PageObs(profile, r.selection, optionsArray)

\* C1 - Combination completeness: when every selectDropdownOption call
\* succeeds, testAllCombinations returns exactly k1*...*kN results, no two
\* results carry the same selection, and the selections recorded are the
\* full Cartesian product of the option sets.
C1_Completeness ==
  (phase = "done" /\ ~selFailed) =>
     /\ Len(results) = SeqProduct(optionsArray)
     /\ \A m, n \in 1..Len(results) :
          m # n => RecordedSelection(results[m]) # RecordedSelection(results[n])
     /\ {RecordedSelection(results[n]) : n \in 1..Len(results)} = CartesianValues

\* C2 - Ordering: when no selection fails, the n-th result is the n-th leaf
\* of the depth-first left-to-right traversal and its number field is n.
C2_Ordering ==
  ~selFailed =>
     \A n \in 1..Len(results) :
        /\ results[n].number = n
        /\ LeafRank(results[n].selection, optionsArray) = n - 1
        /\ Len(results[n].selection) = NDropdowns

C2_Witness ==
  /\ phase = "done" /\ ~selFailed
  /\ Len(results) = 8

C4_VerdictTable ==
  \A n \in 1..Len(results) :
    LET r == results[n]
        obs == ShownFor(r)
    IN  (faults = 0 /\ r.error.kind \notin TechnicalKinds) =>
          /\ r.status = "PASSED"
          /\ obs.visible > 0 => r.tileCount.status = "VALIDATED"
          /\ (obs.visible = 0 /\ IncludesCanonical(obs.msg)) =>
                r.tileCount.status = "VALIDATED_WITH_NO_RESULTS"
          /\ (obs.visible = 0 /\ obs.msg # "" /\ ~IncludesCanonical(obs.msg)) =>
                r.tileCount.status = "HAS_MESSAGE_BUT_NOT_EXPECTED"
          /\ (obs.visible = 0 /\ obs.msg = "") =>
                r.tileCount.status = "NO_VISIBLE_TILES"

\* C5 - Re-verification: when testSingleCombination runs while some dropdown
\* no longer holds its assigned value, the result it records is FAILED, its
\* error names the first such dropdown (unless the driver raised on an
\* earlier re-read), and no tile or sort observation is made for it.
C5_Reverify ==
  [][ ( /\ phase = "enumerating" /\ stack # <<>> /\ Top.idx = NDropdowns
        /\ Len(results') = Len(results) + 1
        /\ FirstMismatch(CurrentSelection(stack, optionsArray), pageVal) # 0 )
      => LET r == results'[Len(results')]
             i == FirstMismatch(CurrentSelection(stack, optionsArray), pageVal)
         IN  /\ r.status = "FAILED"
             /\ r.error \in {VerificationError(i), DriverError}
             /\ r.tileCount = [InitialTileCount EXCEPT !.status = "ERROR"]
             /\ r.sortByValidation = InitialSortBy
             /\ probeLog' = {}
             /\ failedTests' = failedTests + 1
    ]_vars

C5_Witness ==
  /\ results # <<>>
  /\ results[Len(results)].error.kind = "verificationFailed"
  /\ results[Len(results)].error.dropdown = 1
  /\ results[Len(results)].status = "FAILED"
  /\ probeLog = {}

\* C6 - Failure asymmetry: a result is FAILED if and only if a technical
\* failure occurred for it (selection not applied or not re-verified, or a
\* script or driver error raised while the page was observed).
C6_FailedIffTechnical ==
  \A n \in 1..Len(results) :
    LET r == results[n]
    IN  (r.status = "FAILED") <=>
          (r.error.kind \in TechnicalKinds \/ r.tileCount.strategies = "Error")

\* C7 - Retry success: an operation that fails k < maxAttempts times and
\* then succeeds is invoked k+1 times, the call returns its value and
\* leaves retryCounts[operationName] at 0.
C7_RetrySuccess ==
  (retry.pc \in {"returned", "thrown"} /\ retry.variant = "v5" /\ retry.plan < retry.max) =>
     /\ retry.pc = "returned"
     /\ retry.calls = retry.plan + 1
     /\ retryCounts[retry.op] = 0

\* C8 - Retry exhaustion: an operation that always fails is invoked exactly
\* maxAttempts = m >= 1 times and the call then fails with an error naming
\* the operation, whatever the recovery action does.
C8_RetryExhaustion ==
  (/\ retry.pc \in {"returned", "thrown"} /\ retry.variant = "v5"
   /\ retry.max >= 1 /\ retry.plan >= retry.max) =>
     /\ retry.pc = "thrown"
     /\ retry.calls = retry.max
     /\ retry.err.kind = "exhausted"
     /\ retry.err.op = retry.op

\* the sample scenario: 2 dropdowns of 2 and 3 options; 4 combinations show
\* tiles (and no message), 2 show no tile and the canonical message
ScenarioHolds ==
  /\ Len(optionsArray) = 2
  /\ Len(optionsArray[1]) = 2 /\ Len(optionsArray[2]) = 3
  /\ LET leaves == {s \in [1..2 -> Range(optionsArray[1]) \cup Range(optionsArray[2])] :
                      s[1] \in Range(optionsArray[1]) /\ s[2] \in Range(optionsArray[2])}
         shown(s) == PageObs(profile, s, optionsArray)
     IN  /\ Cardinality({s \in leaves : shown(s).visible > 0 /\ shown(s).msg = ""
                                        /\ shown(s).canon = ""}) = 4
         /\ Cardinality({s \in leaves : shown(s).visible = 0 /\ shown(s).msg = CanonicalMsg}) = 2

SortProbes == {"sortControls", "sortScript", "sortCompare"}

\* C10 - Sort applicability with one tile: a tile observation with exactly
\* 1 visible tile gives sort status NOT_APPLICABLE with the
\* insufficient-tiles reason, without sort-control lookup or comparison.
C10_OneTileNotApplicable ==
  \A n \in 1..Len(results) :
    results[n].tileCount.visible = 1 =>
       /\ results[n].sortByValidation.status = "NOT_APPLICABLE"
       /\ results[n].sortByValidation.condition = InsufficientTiles
       /\ results[n].sortByValidation.tilesToSort = 1
       /\ n = Len(results) => probeLog \cap SortProbes = {}

C10_Witness ==
  /\ results # <<>>
  /\ results[Len(results)].tileCount.visible = 1
  /\ results[Len(results)].status = "PASSED"
  /\ "tiles" \in probeLog

\* C11 - Selection failure inside the enumerator: when selecting option o
\* of dropdown idx fails after its retries, one synthetic FAILED result with
\* the partial selection ending in o is appended, the subtree under o is not
\* explored, and the enumeration goes on with the next option of dropdown idx.
C11_SelectionFailure ==
  [][ ( /\ phase = "enumerating" /\ stack # <<>>
        /\ Top.idx < NDropdowns /\ Top.ph = "select"
        /\ retryCounts'["selection"] > retryCounts["selection"] )
      => /\ phase' = "enumerating"
         /\ attempt' = attempt
         /\ stack' = ReplaceTop(stack, Frame(Top.idx, Top.i, "after"))
         /\ Len(results') = Len(results) + 1
         /\ SubSeq(results', 1, Len(results)) = results
         /\ results'[Len(results')].status = "FAILED"
         /\ results'[Len(results')].selection =
               Append(CurrentSelection(stack, optionsArray),
                      optionsArray[Top.idx + 1][Top.i + 1])
    ]_vars

\* errors that reach the catch of testSingleCombination
RaisedKinds == {"verificationFailed", "driver", "exhausted"}

\* C12 - Leaf independence: an error raised inside testSingleCombination is
\* recorded as that combination's FAILED result and leaves the traversal
\* where it was; without selection failures every combination is recorded.
C12_LeafIndependence ==
  /\ [][ (phase = "enumerating" /\ stack # <<>> /\ Top.idx = NDropdowns)
         => /\ phase' = "enumerating"
            /\ attempt' = attempt
            /\ stack' = Pop(stack)
            /\ Len(results') = Len(results) + 1
            /\ SubSeq(results', 1, Len(results)) = results
            /\ results'[Len(results')].selection = CurrentSelection(stack, optionsArray)
            /\ results'[Len(results')].error.kind \in RaisedKinds
                  => results'[Len(results')].status = "FAILED"
       ]_vars
  /\ [](phase = "done" /\ ~selFailed => Len(results) = SeqProduct(optionsArray))

C12_Witness ==
  /\ phase = "done" /\ ~selFailed
  /\ Len(results) = 6
  /\ results[1].status = "FAILED" /\ results[1].error.kind = "exhausted"
  /\ results[6].status = "PASSED"

\* C13 - Per-URL error isolation: a URL whose driver start, navigation,
\* discovery, option extraction or testAllCombinations fails gets status
\* ERROR with the error text and is still pushed; the loop goes on; after
\* the run the results hold one entry per loaded URL, in input order.
C13_UrlIsolation ==
  (suite.pc # "idle" /\ suite.variant = "compact") =>
     /\ \A k \in 1..Len(suite.results) :
          /\ suite.results[k].url = k
          /\ suite.results[k].stage # "none" =>
                (suite.results[k].status = "ERROR"
                 /\ suite.results[k].error = suite.results[k].stage)
     /\ suite.pc = "url" => Len(suite.results) = suite.idx - 1
     /\ suite.pc = "urlFinally" => Len(suite.results) = suite.idx - 1
     /\ suite.pc \in {"finally", "ended"} => Len(suite.results) = suite.loaded

C13_Witness ==
  /\ suite.pc = "ended" /\ suite.variant = "compact"
  /\ suite.loaded = 2
  /\ suite.results[1].stage = "navigation" /\ suite.results[1].status = "ERROR"
  /\ suite.results[2].status = "PASSED"

\* C14 - Report guarantee: every call of runTests that has ended has invoked
\* generateReports exactly once, whatever happened before.
C14_ReportGuarantee ==
  suite.pc = "ended" => suite.reports = 1

\* C15 - Recovery re-entrancy guard: at most one execution of
\* recoverFromStuckState is between its start and its end at any time; a
\* stuck detection or recovery request arriving while isRecovering is true
\* starts no recovery and leaves the stuckRecovery counter alone.
C15_ReentrancyGuard ==
  /\ [](monitor.pc = "on" => Len(monitor.recs) <= 1)
  /\ [][ (monitor.pc = "on" /\ monitor.isRecovering)
         => /\ Len(monitor'.recs) <= Len(monitor.recs)
            /\ retryCounts'["stuckRecovery"] = retryCounts["stuckRecovery"]
       ]_vars

C15_Witness ==
  /\ monitor.pc = "on"
  /\ monitor.isRecovering
  /\ Len(monitor.recs) = 1
  /\ monitor.ignored = 1
  /\ monitor.now - monitor.lastActivityTime > ActivityTimeout

\* the soft recovery the operation name calls for
ExpectedRecovery(op) ==
  CASE op = "navigation" -> [action |-> "refresh", pc |-> "driver"]
    [] op \in {"dropdownFinding", "dropdownOptions"} -> [action |-> "scroll", pc |-> "driver"]
    [] OTHER -> [action |-> "wait", pc |-> "delay"]

\* C16 - Stuck detection and soft recovery: a tick that finds more than 45 s
\* of idle time and no recovery in progress starts a recovery that refreshes
\* (operation name contains 'navigation'), scrolls to top (contains
\* 'dropdown') or only waits; when a recovery ends, successful or not,
\* isRecovering is false and the progress timestamp is refreshed.
C16_SoftRecovery ==
  /\ [][ ( /\ monitor.pc = "on" /\ monitor'.now > monitor.now
           /\ monitor'.now % TickPeriod = 0
           /\ monitor'.now - monitor.lastActivityTime > ActivityTimeout
           /\ ~monitor.isRecovering )
         => /\ monitor'.isRecovering
            /\ Len(monitor'.recs) = Len(monitor.recs) + 1
            /\ LET rec == monitor'.recs[Len(monitor'.recs)]
                   want == ExpectedRecovery(monitor.currentOperation)
               IN  rec.action = want.action /\ rec.pc = want.pc
       ]_vars
  /\ [][ ( /\ monitor.pc = "on" /\ monitor'.now > monitor.now
           /\ monitor'.now - monitor.lastActivityTime <= ActivityTimeout )
         => (monitor'.recs = monitor.recs /\ monitor'.ignored = monitor.ignored)
       ]_vars
  /\ [][ (monitor.pc = "on" /\ Len(monitor'.recs) < Len(monitor.recs))
         => /\ ~monitor'.isRecovering
            /\ monitor'.lastActivityTime = monitor'.now
       ]_vars

C16_Witness ==
  /\ monitor.pc = "on"
  /\ monitor.ended = "failed"
  /\ monitor.recs = << >>
  /\ ~monitor.isRecovering
  /\ monitor.lastActivityTime = monitor.now
  /\ monitor.now > ActivityTimeout

\* C17 - Selection shape invariant: every combination result, FAILED ones
\* included, carries a selection with exactly one entry per discovered
\* dropdown, the entries' dropdown indices running over the dropdowns in
\* order.
C17_SelectionShape ==
  \A n \in 1..Len(results) :
    /\ DOMAIN results[n].options = 1..NDropdowns
    /\ \A i \in DOMAIN results[n].options : results[n].options[i].dropdown = i

\* C18 - Probe error handling: when the in-page tile / no-results detection
\* script raises for a combination, that combination's result is FAILED;
\* the results recorded before it are kept and the enumeration goes on.
C18_ProbeError ==
  /\ [](\A n \in 1..Len(results) :
          results[n].tileCount.strategies = "Error" => results[n].status = "FAILED")
  /\ [][ (Len(results') = Len(results) + 1
            /\ results'[Len(results')].tileCount.strategies = "Error")
         => /\ SubSeq(results', 1, Len(results)) = results
            /\ phase' = "enumerating" /\ attempt' = attempt ]_vars

\* the sort step of a result ran: tile validation returned an observation
SortStepRan(r) == r.tileCount.strategies # ""

\* C19 (as stated) - Sort validation gating: for every combination with
\* fewer than 2 visible tiles (0 tiles with or without a no-results message
\* included) or with no sort control on the page, the recorded sort status
\* is NOT_APPLICABLE with a reason, no title-order comparison is made, and
\* the sort step does not turn the result into FAILED.
C19_SortGating ==
  \A n \in 1..Len(results) :
    LET r == results[n]
        obs == ShownFor(r)
    IN  (SortStepRan(r) /\ (obs.visible < 2 \/ ~obs.sortCtl)) =>
           /\ r.sortByValidation.status = "NOT_APPLICABLE"
           /\ r.sortByValidation.condition # ""
           /\ r.sortByValidation.currentSortStatus = ""
           /\ n = Len(results) => "sortCompare" \notin probeLog
           /\ r.error # ExhaustedError("sortByValidation")

\* C19 (amended) - for every combination with fewer than 2 visible tiles or
\* with no sort control on the page no title-order comparison is made, and
\* the recorded sort status is VALIDATED_WITH_NO_RESULTS for 0 tiles with a
\* displayed valid no-results message, VALIDATED_NO_TILES for 0 tiles of a
\* known problematic combination (Quick Tips, Videos), and NOT_APPLICABLE
\* with the insufficient-tiles or no-sort-controls reason otherwise; the
\* sort step makes the result FAILED only when 2 or more tiles are visible
\* and the sort-control lookup raised on every attempt.
C19_SortGatingAmended ==
  \A n \in 1..Len(results) :
    LET r == results[n]
        obs == ShownFor(r)
        sort == r.sortByValidation
        zero == r.tileCount.visible = 0
        message == zero /\ r.tileCount.hasNoResultsMessage
                        /\ obs.canon # "" /\ obs.canonShown
        problematic == zero /\ \E k \in 1..Len(r.selection) :
                                  r.selection[k].text \in ProblematicTexts
    IN  (SortStepRan(r) /\ (obs.visible < 2 \/ ~obs.sortCtl)) =>
          IF r.error = ExhaustedError("sortByValidation")
          THEN r.status = "FAILED" /\ r.tileCount.visible >= MinTilesForSort
          ELSE /\ sort.currentSortStatus = ""
               /\ sort.tilesToSort = r.tileCount.visible
               /\ n = Len(results) => "sortCompare" \notin probeLog
               /\ \/ /\ sort.status = "VALIDATED_WITH_NO_RESULTS" /\ message
                  \/ /\ sort.status = "VALIDATED_NO_TILES" /\ problematic
                  \/ /\ sort.status = "NOT_APPLICABLE"
                     /\ sort.condition = IF r.tileCount.visible < MinTilesForSort
                                         THEN InsufficientTiles
                                         ELSE "No sort controls available on page"
               /\ faults = 0 =>
                    sort.status = IF message THEN "VALIDATED_WITH_NO_RESULTS"
                                  ELSE IF problematic THEN "VALIDATED_NO_TILES"
                                  ELSE "NOT_APPLICABLE"

C19_Witness ==
  /\ results # <<>>
  /\ LET r == results[Len(results)]
     IN  /\ r.status = "PASSED"
         /\ r.tileCount.visible >= MinTilesForSort
         /\ ~ShownFor(r).sortCtl
         /\ r.sortByValidation.status = "NOT_APPLICABLE"
         /\ "sortControls" \in probeLog
  /\ \E m \in 1..Len(results) :
        results[m].sortByValidation.status = "VALIDATED_WITH_NO_RESULTS"

\* titles in page order never decrease / never increase under localeCompare
NonDecreasing(t) == \A i \in 1..(Len(t) - 1) : LocaleCompare(t[i], t[i + 1]) <= 0
NonIncreasing(t) == \A i \in 1..(Len(t) - 1) : LocaleCompare(t[i], t[i + 1]) >= 0

\* C20 - Sort order classification: given at least 2 tile titles in page
\* order, the ordering is classified ALPHABETICAL when the sequence equals
\* its ascending sort, REVERSE_ALPHABETICAL when it equals its descending
\* sort and not its ascending sort, and UNSORTED otherwise; a sequence of
\* identical titles is ALPHABETICAL.
C20_SortClassification ==
  (sorting.pc = "done" /\ Len(sorting.titles) >= 2) =>
     /\ sorting.status = "VALIDATED"
     /\ sorting.currentSortStatus =
          IF NonDecreasing(sorting.titles) THEN "ALPHABETICAL"
          ELSE IF NonIncreasing(sorting.titles) THEN "REVERSE_ALPHABETICAL"
          ELSE "UNSORTED"

\* C21 - Stuck-recovery escalation: retryCounts.stuckRecovery is incremented
\* only when a soft recovery fails (one that succeeds leaves it unchanged),
\* and hardRestart is invoked when, and only when, the counter reaches its
\* maximum of 2.
C21_Escalation ==
  /\ [][ (monitor.pc = "on" /\ retryCounts'["stuckRecovery"] # retryCounts["stuckRecovery"])
         => /\ retryCounts'["stuckRecovery"] = retryCounts["stuckRecovery"] + 1
            /\ \E k \in 1..Len(monitor.recs) :
                  /\ k <= Len(monitor'.recs)
                  /\ ~monitor.recs[k].failed
                  /\ monitor'.recs[k].failed
       ]_vars
  /\ [][ (monitor.pc = "on" /\ ~monitor.driverQuit)
         => (monitor'.driverQuit <=>
               (retryCounts["stuckRecovery"] < MaxRetriesStuckRecovery
                  /\ retryCounts'["stuckRecovery"] = MaxRetriesStuckRecovery))
       ]_vars

\* a recovery execution is inside hardRestart / has left it
InHardRestart(m) == \E k \in 1..Len(m.recs) : m.recs[k].pc = "quit"

\* C22 - Hard restart effect: after hardRestart completes, the buffered
\* validation log entries have been flushed, the old browser session has
\* been terminated and is no longer referenced as the current session, and
\* the next operation attempt re-initializes a session before using it.
C22_HardRestartEffect ==
  /\ [][ (monitor.pc = "on" /\ InHardRestart(monitor) /\ ~InHardRestart(monitor'))
         => /\ ~monitor'.buffered
            /\ monitor'.driverQuit
            /\ ~monitor'.driverRef
       ]_vars
  /\ [][ (monitor.pc = "on" /\ monitor.driverQuit /\ ~InHardRestart(monitor)
            /\ monitor.mainCall = "none" /\ monitor'.mainCall = "pending")
         => ~monitor'.driverQuit
       ]_vars

\* browser calls awaited at the same time: the main flow's and those of
\* the recoveries (refresh, scroll, quit)
InFlight(m) ==
  (IF m.mainCall = "pending" THEN 1 ELSE 0)
    + Cardinality({k \in 1..Len(m.recs) : m.recs[k].pc \in {"driver", "quit"}})

\* C23 - No overlapping browser calls: at most one call to the browser
\* session is in flight at any time; the monitor's remedial actions (page
\* refresh, scroll to top) are issued only when no browser call of the main
\* flow is pending.
C23_NoOverlap ==
  /\ [](monitor.pc = "on" => InFlight(monitor) <= 1)
  /\ [][ (monitor.pc = "on" /\ Len(monitor'.recs) > Len(monitor.recs)
            /\ monitor'.recs[Len(monitor'.recs)].pc = "driver")
         => monitor.mainCall = "none"
       ]_vars

\* C24 - Stale calls after session discard: when hardRestart terminated the
\* session while a browser call of the main flow was pending, the outcome
\* of that call is ignored: it produces no combination result and changes
\* no pass/fail counter.
C24_StaleIgnored ==
  [][ (monitor.pc = "on" /\ monitor.stale
         /\ monitor.mainCall = "pending" /\ monitor'.mainCall = "none")
      => /\ results' = results
         /\ totalTests' = totalTests
         /\ passedTests' = passedTests
         /\ failedTests' = failedTests
    ]_vars

\* the backoff base the specification tabulates for failed attempt a
TabulatedBase(a) ==
  CASE a = 1 -> 1000 [] a = 2 -> 2000 [] a = 3 -> 4000 [] a = 4 -> 8000
    [] OTHER -> 10000

\* C25 - Backoff delay: after failed attempt a (1-based) with attempts
\* remaining, executeWithRetry waits d milliseconds with
\* base <= d < base + 1000, the base being 1000, 2000, 4000, 8000 and then
\* 10000 for every later attempt.
C25_BackoffDelay ==
  retry.pc = "recovery" =>
     /\ retry.attempt < retry.max
     /\ TabulatedBase(retry.attempt) <= retry.delay
     /\ retry.delay < TabulatedBase(retry.attempt) + 1000

C25_Witness ==
  /\ retry.pc = "recovery"
  /\ retry.attempt = 5
  /\ retry.delay = 10999

\* the recovery action the specification names for an operation
NamedRecovery(op) ==
  IF op = "navigation" THEN "clearCookies"
  ELSE IF op = "dropdownFinding" THEN "reloadThenWait"
  ELSE "wait"

\* C26 - Recovery ordering: between failed attempt a and attempt a+1 the
\* events are failure, backoff wait, recovery action, next attempt, with
\* exactly one wait and one recovery action per gap; the action is chosen by
\* operation name (navigation: clear cookies; dropdownFinding: reload then
\* wait; any other: wait only); after the last failed attempt there is
\* neither a wait nor a recovery action.
C26_RecoveryOrdering ==
  /\ [](retry.pc = "attempt" =>
          (retry.waited = retry.attempt - 1 /\ retry.recovered = retry.attempt - 1))
  /\ [][ (retry.pc = "attempt" /\ retry'.pc \notin {"attempt", "returned"})
         => /\ retry'.calls = retry.calls + 1
            /\ retry'.waited = retry.waited /\ retry'.recovered = retry.recovered
            /\ retry'.pc = IF retry.attempt < retry.max THEN "backoff" ELSE "thrown"
       ]_vars
  /\ [][ retry.pc = "backoff"
         => /\ retry'.pc = "recovery"
            /\ retry'.waited = retry.waited + 1
            /\ retry'.recovered = retry.recovered /\ retry'.calls = retry.calls
       ]_vars
  /\ [][ retry.pc = "recovery"
         => /\ retry'.recovered = retry.recovered + 1
            /\ retry'.action = NamedRecovery(retry.op)
            /\ retry'.waited = retry.waited /\ retry'.calls = retry.calls
            /\ retry'.pc = "attempt" => retry'.attempt = retry.attempt + 1
       ]_vars
  /\ []((retry.pc = "thrown" /\ retry.err.kind = "exhausted" /\ retry.max >= 1) =>
          (retry.waited = retry.max - 1 /\ retry.recovered = retry.max - 1))

C26_Witness ==
  /\ retry.pc = "thrown"
  /\ retry.err.kind = "exhausted"
  /\ retry.op = "dropdownFinding"
  /\ retry.max = 3
  /\ retry.calls = 3
  /\ retry.action = "reloadThenWait"
  /\ retry.waited = 2 /\ retry.recovered = 2

\* C27 - Failure counting: every failed attempt inside executeWithRetry
\* increments retryCounts[operationName] by exactly 1 (an absent counter
\* counting as 0), also for the names the constructor initialises to 0.
C27_FailureCounting ==
  [][ (retry.pc = "attempt" /\ retry'.pc \in {"backoff", "thrown"})
      => retryCounts'[retry.op] = OrZero(retryCounts[retry.op]) + 1
    ]_vars

\* C28 - Progress marking per attempt: before each attempt of
\* executeWithRetry (the first and every retry) the current-operation marker
\* is this operation's name and the progress timestamp has been refreshed
\* for this attempt.
C28_ProgressPerAttempt ==
  (retry.pc = "attempt" /\ retry.variant = "v5") =>
     /\ retry.currentOperation = retry.op
     /\ retry.stamp = retry.attempt

\* C29 - Exhaustion error content: when all attempts of executeWithRetry
\* fail, the error it fails with carries the operation name and the error of
\* the last attempt.
C29_ExhaustionError ==
  (retry.pc = "thrown" /\ retry.err.kind = "exhausted" /\ retry.max >= 1) =>
     /\ retry.err.op = retry.op
     /\ retry.err.cause = retry.max

\* first selector, in the fixed order, that does not raise and matches
FirstMatching(page) ==
  CHOOSE i \in 1..Len(Strategies) :
    /\ i \notin page.raises /\ page.found[i] >= 1
    /\ \A j \in 1..(i - 1) : j \in page.raises \/ page.found[j] = 0

\* C30 - Dropdown discovery: getDropdownElements returns the matches of the
\* first selector, in the fixed order, that yields at least one element
\* (a selector whose lookup raises is skipped), truncated to the first 3, so
\* between 1 and 3 elements; when no attempt finds a match the call fails
\* after the configured 2 attempts.
C30_Discovery ==
  /\ (retry.pc = "returned" /\ retry.op = "dropdownFinding") =>
        LET i == FirstMatching(retry.page)
            n == retry.page.found[i]
        IN  /\ retry.found.strategy = i
            /\ retry.found.elements = [k \in 1..(IF n < 3 THEN n ELSE 3) |-> k]
            /\ Len(retry.found.elements) \in 1..3
  /\ (retry.pc = "thrown" /\ retry.op = "dropdownFinding") =>
        /\ retry.calls = MaxRetriesDropdownFinding
        /\ retry.err.kind = "exhausted"

\* C31 - Selection post-condition: selectDropdownOption returns true only
\* when its last attempt assigned option.value to the control and the last
\* re-read, made after the settle delay, showed the control's value equal to
\* option.value; an attempt whose last re-read shows another value (the page
\* reverted it) does not make the call return true.
C31_SelectionPostcondition ==
  /\ [][(retry.pc = "attempt" /\ retry'.pc = "returned" /\ retry.op = "selection")
          => /\ retry'.didSet
             /\ retry'.seen = retry.target
             /\ retry'.control = retry.target]_vars
  /\ [][(retry.pc = "attempt" /\ retry.op = "selection" /\ retry'.seen # retry.target)
          => retry'.pc # "returned"]_vars

\* a call that returns true on its second attempt
C31_Witness ==
  /\ retry.pc = "returned" /\ retry.op = "selection"
  /\ retry.calls = 2 /\ retry.target = "a" /\ retry.seen = "a" /\ retry.didSet

\* C32 (as stated) - Reset frame: resetNextDropdowns(dropdowns, options,
\* startIdx) issues selections only on dropdowns with index >= startIdx, one
\* per such dropdown, each choosing the option with empty value if there is
\* one and the first option otherwise; no error reaches the enumerator.
C32_ResetFrameAsStated ==
  resetLog.frame # -1 =>
    LET startIdx == resetLog.frame + 1
        n == Len(resetLog.issued)
    IN  /\ \A j \in 1..NDropdowns :
              Cardinality({k \in 1..n : resetLog.issued[k].d = j})
                = (IF j - 1 >= startIdx THEN 1 ELSE 0)
        /\ \A k \in 1..n :
              resetLog.issued[k].value = ExpectedDefault(resetLog.issued[k].d)
        /\ phase = "enumerating"

\* C32 (amended) - resetNextDropdowns(dropdowns, options, startIdx) issues
\* selections only on dropdowns with index >= startIdx, in order and at most
\* one on each: one on every such dropdown whose options could be
\* re-extracted, choosing the option with empty value if the re-extracted
\* list has one and the first option otherwise; a dropdown that could not be
\* reset does not stop the reset of the following ones, and no error reaches
\* the enumerator, which goes on with the next option.
C32_ResetFrame ==
  resetLog.frame # -1 =>
    LET startIdx == resetLog.frame + 1
        after == {j \in 1..NDropdowns : j - 1 >= startIdx}
        n == Len(resetLog.issued)
    IN  /\ \A k \in 1..n : (resetLog.issued[k].d - 1) >= startIdx
        /\ \A k \in 1..n : \A m \in 1..n :
              k < m => resetLog.issued[k].d < resetLog.issued[m].d
        /\ {resetLog.issued[k].d : k \in 1..n} = after \ resetLog.noOptions
        /\ \A k \in 1..n :
              resetLog.issued[k].value = ExpectedDefault(resetLog.issued[k].d)
        /\ phase = "enumerating"
        /\ Top.idx = resetLog.frame /\ Top.ph = "select"

\* a reset over two dropdowns whose first selection failed and whose second
\* one succeeded
C32_Witness ==
  /\ resetLog.frame = 0
  /\ NDropdowns = 3
  /\ Len(resetLog.issued) = 2
  /\ resetLog.ok = {3}

\* C33 - Session per URL: every URL that is loaded is loaded in a browser
\* session built in that URL's own turn; that session is shut down before
\* the next URL starts; no session is used for two URLs.
C33_SessionPerUrl ==
  suite.pc # "idle" =>
     /\ \A k \in 1..Len(suite.results) :
          suite.results[k].session # 0 =>
             suite.madeFor[suite.results[k].session] = suite.results[k].url
     /\ \A k \in 1..Len(suite.results) : \A m \in 1..Len(suite.results) :
          (k # m /\ suite.results[k].session # 0) =>
             suite.results[k].session # suite.results[m].session
     /\ (suite.pc = "url" /\ suite.idx > 1) => suite.open = {}

Numbers(n) == [k \in 1..n |-> k]

\* C34 (as stated) - Flush idempotence: flushValidationBuffer on an empty
\* buffer writes nothing and changes no state, not even the progress
\* timestamp; two calls in a row write the buffered entries once and leave
\* the buffer empty.
C34_FlushIdempotence ==
  /\ [][(logging.pc = "on" /\ logging'.pc = "on" /\ logging'.last = "flush"
         /\ logging.validationBuffer = << >>)
          => /\ logging'.written = logging.written
             /\ logging'.validationBuffer = << >>
             /\ logging'.activity = logging.activity
             /\ logging'.captured = logging.captured
             /\ logging'.failures = logging.failures]_vars
  /\ [][(logging.pc = "on" /\ logging'.pc = "on" /\ logging.last = "flush"
         /\ logging'.last = "flush")
          => /\ logging'.written = logging.pre.written \o logging.pre.validationBuffer
             /\ logging'.validationBuffer = << >>]_vars

\* C34 (amended) - flushValidationBuffer on an empty buffer writes nothing
\* and changes no state, not even the progress timestamp; two calls in a row
\* write the buffered entries at most once: once, leaving the buffer empty,
\* when the file write of one of them goes through, and not at all, leaving
\* the buffer as it was, when both writes raise.
C34_FlushIdempotenceAmended ==
  /\ [][(logging.pc = "on" /\ logging'.pc = "on" /\ logging'.last = "flush"
         /\ logging.validationBuffer = << >>)
          => /\ logging'.written = logging.written
             /\ logging'.validationBuffer = << >>
             /\ logging'.activity = logging.activity
             /\ logging'.captured = logging.captured
             /\ logging'.failures = logging.failures]_vars
  /\ [][(logging.pc = "on" /\ logging'.pc = "on" /\ logging.last = "flush"
         /\ logging'.last = "flush")
          => \/ /\ logging'.written = logging.pre.written \o logging.pre.validationBuffer
                /\ logging'.validationBuffer = << >>
             \/ /\ logging'.written = logging.pre.written
                /\ logging'.validationBuffer = logging.pre.validationBuffer
                /\ logging'.failures >= 2]_vars

\* a second flush in a row, the first one having written three entries
C34_Witness ==
  /\ logging.pc = "on" /\ logging.last = "flush"
  /\ logging.pre.validationBuffer = << >>
  /\ logging.validationBuffer = << >>
  /\ logging.written = Numbers(3)
  /\ logging.activity = 4

\* C35 - Validation log delivery: however captureValidation calls, timer
\* flushes and explicit flushes follow one another, the log file followed by
\* the buffer is the sequence of captured entries, each once and in capture
\* order; a flush whose write goes through leaves every captured entry in
\* the file; a flush whose write raises leaves file and buffer as they were;
\* while no write has raised, the buffer holds fewer than 50 entries when
\* captureValidation returns.
C35_LogDelivery ==
  /\ [](logging.pc = "on" =>
          /\ logging.written \o logging.validationBuffer = Numbers(logging.captured)
          /\ (logging.failures = 0 /\ logging.last = "capture")
                => Len(logging.validationBuffer) < 50)
  /\ [][(logging.pc = "on" /\ logging'.pc = "on" /\ logging'.last = "flush")
          => IF logging'.failures = logging.failures
             THEN /\ logging'.written = Numbers(logging.captured)
                  /\ logging'.validationBuffer = << >>
             ELSE /\ logging'.written = logging.written
                  /\ logging'.validationBuffer = logging.validationBuffer]_vars

\* 52 captures with no write failure and a single flush, made by the 50th
\* capture
C35_Witness ==
  /\ logging.pc = "on" /\ logging.last = "capture"
  /\ logging.captured = 52 /\ logging.failures = 0
  /\ logging.written = Numbers(50)
  /\ logging.validationBuffer = << 51, 52 >>
  /\ logging.activity = 53

\* C36 - Fatal setup error: when setup fails before any URL is tested (the
\* CSV file cannot be read, the first driver start fails), the error is
\* logged and the process ends with a non-zero exit status.
C36_FatalSetupError ==
  (suite.pc = "exited" /\ suite.setupFailed) =>
     /\ suite.logged
     /\ suite.exit = "1"

\* C37 - Timer shutdown: once runTests has finished, with its reports
\* generated, both timers of the constructor are cancelled: no liveness
\* check runs a recovery after the run, and the process terminates.
C37_TimerShutdown ==
  (suite.pc \in {"ended", "exited"} /\ suite.variant = "compact" /\ suite.reports = 1) =>
     /\ suite.timers = {}
     /\ suite.late = 0
     /\ suite.pc = "exited" => suite.exit # "running"

\* C38 - Counter consistency: at every point of a run totalTests =
\* passedTests + failedTests, and when the run has ended totalTests equals
\* the sum over the URL results of summary.total, also when
\* testAllCombinations succeeded only on a retry and when some results are
\* FAILED.
C38_CounterConsistency ==
  /\ totalTests = passedTests + failedTests
  /\ phase = "done" => totalTests = urlResult.summary.total

\* C39 - Enumeration retry: the list testAllCombinations returns after a
\* retry holds the results of the attempt that completed and no other: one
\* result per combination of that attempt's options, numbered 1..length in
\* enumeration order, without gaps or repeats.
C39_EnumerationRetry ==
  (phase = "done" /\ attempt > 1) =>
     /\ Len(results) = SeqProduct(optionsArray)
     /\ \A n \in 1..Len(results) :
          /\ results[n].number = n
          /\ LeafRank(results[n].selection, optionsArray) = n - 1
     /\ urlResult.combinations = Len(results)

\* an enumeration that completed on its second attempt, the first one having
\* recorded a result before it failed
C39_Witness ==
  /\ phase = "done" /\ attempt = 2
  /\ totalTests > Len(results)
  /\ Len(results) = 6

\* C40 - Status derivation: a URL result whose enumeration completed is
\* FAILED if at least one combination is FAILED, else PASSED if at least one
\* combination passed, else SKIPPED, and its summary has passed + failed =
\* total; the overall status of the run is ERROR if any URL is ERROR, else
\* FAILED if any URL is FAILED, else SKIPPED if every URL is SKIPPED (also
\* when there is no URL result), else PASSED.
C40_StatusDerivation ==
  suite.pc # "idle" =>
     /\ \A k \in 1..Len(suite.results) :
          LET r == suite.results[k]
              anyFailed == \E i \in 1..Len(r.combos) : r.combos[i] = "FAILED"
              anyPassed == \E i \in 1..Len(r.combos) : r.combos[i] = "PASSED"
          IN  r.stage = "none" =>
                /\ r.status = (CASE anyFailed -> "FAILED"
                                 [] ~anyFailed /\ anyPassed -> "PASSED"
                                 [] OTHER -> "SKIPPED")
                /\ r.summary.passed + r.summary.failed = r.summary.total
                /\ r.summary.total = Len(r.combos)
     /\ suite.reports = 1 =>
          LET st == {suite.results[k].status : k \in 1..Len(suite.results)}
          IN  suite.overall = (CASE "ERROR" \in st -> "ERROR"
                                 [] "ERROR" \notin st /\ "FAILED" \in st -> "FAILED"
                                 [] st \subseteq {"SKIPPED"} -> "SKIPPED"
                                 [] OTHER -> "PASSED")

\* a run over two URLs, one passed and one with a failed combination
C40_Witness ==
  /\ suite.pc = "ended" /\ suite.reports = 1
  /\ Len(suite.results) = 2
  /\ suite.results[1].status = "PASSED"
  /\ suite.results[2].combos = << "PASSED", "FAILED" >>
  /\ suite.results[2].status = "FAILED"
  /\ suite.overall = "FAILED"

====
